---- MODULE Spec2Model ----
(***************************************************************************)
(* Model of the concurrent sampling/rendering engine of mySystemStats:     *)
(* the coordinator show_sys_usage, the three worker spawners               *)
(* read_memory_info / read_cpu_info / read_user_info, the pipes between    *)
(* them, the SIGINT handler and the terminal the report is drawn on.       *)
(*                                                                         *)
(* Time is counted in ticks.  Every statement of the coordinator takes no  *)
(* time; the only things that take time are an accessor running in a       *)
(* worker (its cost) and sleep(tdelay).  Workers run in parallel: one tick *)
(* advances every running worker.                                          *)
(***************************************************************************)
EXTENDS Integers, Sequences, FiniteSets, TLC

MaxSample == 3      \* largest --samples value explored
MaxDelay == 1       \* largest --tdelay value explored
MaxCost == 1        \* largest cost (ticks) of the memory / users accessor
MaxUsers == 1       \* largest number of logged-in sessions
MaxFd == 8          \* largest descriptor number the coordinator can get
MaxDelta == 6       \* largest memory delta (GB) between two samples, line by line
MaxDigits == 2      \* largest number of digits before the point of an amount
LineBuffer == 512   \* char mem_info[512]
GlyphsPerGB == 100  \* diff * 100 glyphs in the delta graph
ManySessions == 6   \* a number of sessions larger than the rows the tail skips
MaxFaults == 1      \* largest number of worker failures in one iteration
Steps == 2          \* memory amounts are counted in steps of 0.01 / Steps GB
MaxUse == 8         \* largest memory amount handed to show_memory_graph
MaxCallUse == 4     \* largest memory amount in a sequence of show_memory_graph calls
MaxTicks == 2       \* largest counter sum of a /proc/stat reading, in ticks
MaxSignals == 1     \* largest number of Ctrl-C's answered otherwise than by 'y'
MaxArgs == 4        \* largest number of command line arguments
MaxArg == 2         \* largest integer given on the command line
DefaultSample == 10 \* int sample = 10
DefaultDelay == 1   \* int tdelay = 1

Kinds == {"mem", "cpu", "usr"}

VARIABLES
    sample, tdelay,          \* run configuration
    sys, user, graph, sequential,
    pc,                      \* position of the coordinator
    i,                       \* loop index of show_sys_usage
    n,                       \* lines of the last rendered session block
    prev_used,               \* previous physical-used value (-1: none)
    cpu_use,                 \* the coordinator's cpu value: -1 uninitialised,
                             \* 1 read in this iteration, 0 read in an earlier one
    wk,                      \* the worker of each kind forked in this iteration
    ch,                      \* the pipe of each kind: content and who holds its ends
    out,                     \* what this iteration has written to the terminal so far
    memLines, cpuLines,      \* memory lines / cpu lines written since the start
    usrBlocks,               \* session blocks written since the start
    iterBlocks, lastIter,    \* iteration titles written, number shown by the last one
    osBlocks,                \* OS identity blocks written
    cur, bottom,             \* cursor row, first row never written
    now,                     \* ticks elapsed since the iteration started
    longest,                 \* largest cost of an accessor started in this iteration
    total,                   \* sum of the costs of the accessors started in it
    sleepRem,                \* ticks left of the coordinator's sleep(tdelay)
    spawned,                 \* number of successful fork() calls
    faults,                  \* the workers of this iteration that have failed
    abort,                   \* the call whose failure ended the run ("" if none)
    curr_use, previous_use,  \* the arguments of a call of show_memory_graph
    graph_line,              \* what that call has printed
    measured,                \* the amount the memory accessor measured last
    ref,                     \* a call of show_memory_graph kept for comparison
    stat,                    \* calculate_cpu_use: its two readings and its result
    va,                      \* vertify_arg: its locals, and what argv has held so far
    sigint,                  \* the Ctrl-C's answered otherwise than by 'y' / 'Y'
    sg,                      \* the workers of one iteration and the signals they get
    io,                      \* the stdio buffers of the coordinator and of its workers
    sub                      \* fdt, mi and lb below, each followed on its own

vars == <<sample, tdelay, sys, user, graph, sequential, pc, i, n, prev_used,
          cpu_use, wk, ch, out, memLines, cpuLines, usrBlocks, iterBlocks,
          lastIter, osBlocks, cur, bottom, now, longest, total, sleepRem, spawned,
          faults, abort, curr_use, previous_use, graph_line, measured, ref, stat,
          va, sigint, sg, io, sub>>

\* the descriptor table of the coordinator
fdt == sub.fdt

\* get_memory_info: its stream and its locals
mi == sub.mi

\* the memory line in the pipe and in mem_info
lb == sub.lb

\* the next value of each of them, the other two left as they are
SetFdt(t) == sub' = [sub EXCEPT !.fdt = t]

SetMemInfo(m) == sub' = [sub EXCEPT !.mi = m]

SetLine(b) == sub' = [sub EXCEPT !.lb = b]

flags == <<sys, user>>

\* what has been written to the terminal and where the cursor is
term == <<out, memLines, cpuLines, usrBlocks, iterBlocks, lastIter, osBlocks,
         cur, bottom>>

clock == <<now, longest, total, sleepRem>>

config == <<sample, tdelay, graph, sequential>>

\* the state of the functions that are checked on their own
alone == <<stat, va, sigint, sg, io, sub>>
memg == <<curr_use, previous_use, graph_line, measured, ref>>
enc == <<memg, alone>>
\* the coordinator and its workers
prog == <<pc, i, n, prev_used, cpu_use, wk, ch, term, clock, spawned, faults, abort>>

\* ------------------------------------------------------------------ helpers

Max2(a, b) == IF a >= b THEN a ELSE b

Ev(t, it, v) == [t |-> t, it |-> it, v |-> v]

\* k copies of the event e
Rep(k, e) == [x \in 1..k |-> e]

\* a worker: its state, the ticks its accessor still needs, whether it has
\* just been forked, and (users worker) the number of sessions it will report
NoWorker == [st |-> "none", rem |-> 0, fresh |-> FALSE, users |-> 0]

NoPipe == [buf |-> <<>>, w |-> {}, r |-> {}]

\* ------------------------------------------------------------------ delta graph

\* no prior sample: previous_use == -1 (GB)
NoPrev == -100 * Steps

\* nothing printed yet
NoLine == [glyph |-> "", len |-> 0, end |-> "", mag |-> {}]

\* printf("%.2f", d): the hundredths nearest to d; a d half way between two
\* hundredths goes to either, as its binary value decides
Fmt2(d) == {h \in -(100 + MaxUse)..(100 + MaxUse) :
               2 * (IF h * Steps >= d THEN h * Steps - d ELSE d - h * Steps) <= Steps}

\* for (int i = 0; i < diff * 100; i ++) printf("#"): the number of glyphs
RECURSIVE RunUp(_, _)
RunUp(k, diff) == IF k * Steps < diff THEN RunUp(k + 1, diff) ELSE k

\* for (int i = 0; i > diff * 100; i --) printf(":"): the number of glyphs
RECURSIVE RunDown(_, _)
RunDown(k, diff) == IF k * Steps > diff THEN RunDown(k - 1, diff) ELSE -k

\* an encoder that tests the negative-infinitesimal branch first
ShowMemoryGraphNegativeFirst(curr, prev) ==
    LET diff == curr - prev
    IN  IF diff <= 0 /\ diff > -Steps
        THEN [glyph |-> "", len |-> 0, end |-> "@", mag |-> {0}]
        ELSE IF (diff < Steps /\ diff >= 0) \/ prev = NoPrev
        THEN [glyph |-> "", len |-> 0, end |-> "o", mag |-> {0}]
        ELSE IF diff >= Steps
        THEN [glyph |-> "#", len |-> RunUp(0, diff), end |-> "*", mag |-> Fmt2(diff)]
        ELSE [glyph |-> ":", len |-> RunDown(0, diff), end |-> "@", mag |-> Fmt2(diff)]

\* an encoder that keeps the previous amount of its last call in a static
\* variable and uses it in place of its argument
ShowMemoryGraphStatic(curr, prev) ==
    LET last == IF graph_line.end = "" THEN prev ELSE previous_use
        diff == curr - last
    IN  IF (diff < Steps /\ diff >= 0) \/ last = NoPrev
        THEN [glyph |-> "", len |-> 0, end |-> "o", mag |-> {0}]
        ELSE IF diff <= 0 /\ diff > -Steps
        THEN [glyph |-> "", len |-> 0, end |-> "@", mag |-> {0}]
        ELSE IF diff >= Steps
        THEN [glyph |-> "#", len |-> RunUp(0, diff), end |-> "*", mag |-> Fmt2(diff)]
        ELSE [glyph |-> ":", len |-> RunDown(0, diff), end |-> "@", mag |-> Fmt2(diff)]

\* show_memory_graph: the run glyph and its length, the end marker, the
\* magnitude shown
ShowMemoryGraph(curr, prev) ==
    LET diff == curr - prev
    IN  IF (diff < Steps /\ diff >= 0) \/ prev = NoPrev
        THEN [glyph |-> "", len |-> 0, end |-> "o", mag |-> {0}]
        ELSE IF diff <= 0 /\ diff > -Steps
        THEN [glyph |-> "", len |-> 0, end |-> "@", mag |-> {0}]
        ELSE IF diff >= Steps
        THEN [glyph |-> "#", len |-> RunUp(0, diff), end |-> "*", mag |-> Fmt2(diff)]
        ELSE [glyph |-> ":", len |-> RunDown(0, diff), end |-> "@", mag |-> Fmt2(diff)]

\* ------------------------------------------------------------------ terminal

\* move_up / move_down: a relative move by `lines` lines
Displacement(lines) == lines

\* the effect of one output event on the cursor
ApplyEv(t, e) ==
    CASE e.t = "up"   -> [t EXCEPT !.cur = @ - Displacement(e.v)]
      [] e.t = "down" -> [t EXCEPT !.cur = @ + Displacement(e.v)]
      [] OTHER        -> [cur |-> t.cur + 1, bottom |-> Max2(t.bottom, t.cur + 1)]

RECURSIVE Render(_, _)
Render(t, es) == IF es = <<>> THEN t ELSE Render(ApplyEv(t, Head(es)), Tail(es))

\* printf / move_up / move_down of the coordinator: es goes to the terminal
Count(es, t) == Cardinality({x \in 1..Len(es) : es[x].t = t})

Output(es) ==
    LET t == Render([cur |-> cur, bottom |-> bottom], es)
        titles == {x \in 1..Len(es) : es[x].t = "iter"}
    IN  /\ out' = out \o es
        /\ cur' = t.cur
        /\ bottom' = t.bottom
        /\ memLines' = memLines + Count(es, "mem")
        /\ cpuLines' = cpuLines + Count(es, "cpu")
        /\ usrBlocks' = usrBlocks + (IF pc = "usr_read" THEN 1 ELSE 0)
        /\ iterBlocks' = iterBlocks + Count(es, "iter")
        /\ lastIter' = IF titles = {} THEN lastIter ELSE es[CHOOSE x \in titles : TRUE].v
        /\ osBlocks' = osBlocks + Count(es, "osname")

\* ------------------------------------------------------------------ pipes

\* pipe(fd): a fresh pipe, both ends held by the coordinator
PipeCreate(c, k) == [c EXCEPT ![k] = [buf |-> <<>>, w |-> {"parent"}, r |-> {"parent"}]]

\* fork(): the child k gets a copy of every descriptor the coordinator holds
ForkCopy(c, k) ==
    [x \in Kinds |->
        [c[x] EXCEPT !.w = IF "parent" \in @ THEN @ \cup {k} ELSE @ \ {k},
                     !.r = IF "parent" \in @ THEN @ \cup {k} ELSE @ \ {k}]]

\* close(fd[STDIN_FILENO]) in the child
ChildCloseRead(c, k) == [c EXCEPT ![k].r = @ \ {k}]

\* a parent that keeps the writing end open
ParentKeepsWrite(c, k) == c

\* close(fd[STDOUT_FILENO]) in the parent
ParentCloseWrite(c, k) == [c EXCEPT ![k].w = @ \ {"parent"}]

\* fclose / close of the reading end in the parent
ParentCloseRead(c, k) == [c EXCEPT ![k].r = @ \ {"parent"}]

\* a process ends: all its descriptors are closed
ProcExit(c, p) == [x \in Kinds |-> [c[x] EXCEPT !.w = @ \ {p}, !.r = @ \ {p}]]

\* a read that never blocks
ReadyAtOnce(k) == TRUE

\* a blocking fgets / read on pipe k returns: data, or end of file
Ready(k) == ch[k].buf # <<>> \/ ch[k].w = {}

\* the fgets loop on the users pipe ends at end of file
AtEof(k) == ch[k].w = {}

\* ------------------------------------------------------------------ program order

\* an iteration that renders the cpu section before the memory section
OrderCpuFirst ==
    <<"spawn_mem", "spawn_cpu", "fdopen_mem", "spawn_usr", "fdopen_usr",
      "title", "cpu_read", "mem_hdr", "mem_up", "mem_read", "usr_up",
      "usr_read", "usr_sleep">>

\* an iteration that reads the users pipe before the memory pipe
OrderUsersFirst ==
    <<"spawn_mem", "spawn_cpu", "fdopen_mem", "spawn_usr", "fdopen_usr",
      "title", "mem_hdr", "usr_up", "usr_read", "mem_up", "mem_read",
      "usr_sleep", "cpu_read">>

\* an iteration that ends before the cpu section
OrderNoCpuSection ==
    <<"spawn_mem", "spawn_cpu", "fdopen_mem", "spawn_usr", "fdopen_usr",
      "title", "mem_hdr", "mem_up", "mem_read", "usr_up", "usr_read",
      "usr_sleep">>

\* an iteration that starts the users worker only after the memory read
OrderLazyUsers ==
    <<"spawn_mem", "spawn_cpu", "fdopen_mem", "title", "mem_hdr", "mem_up",
      "mem_read", "spawn_usr", "fdopen_usr", "usr_up", "usr_read", "usr_sleep",
      "cpu_read">>

\* the statements of one iteration of show_sys_usage, in program order
Order ==
    <<"spawn_mem", "spawn_cpu", "fdopen_mem", "spawn_usr", "fdopen_usr",
      "title", "mem_hdr", "mem_up", "mem_read", "usr_up", "usr_read",
      "usr_sleep", "cpu_read">>

\* an iteration that starts and reads the users worker whatever the flag
ActiveUsersAlways(l) ==
    CASE l = "spawn_mem"  -> sys = 1
      [] l = "spawn_cpu"  -> sys = 1
      [] l = "fdopen_mem" -> sys = 1
      [] l = "spawn_usr"  -> TRUE
      [] l = "fdopen_usr" -> TRUE
      [] l = "title"      -> sequential = 1 \/ i = 0
      [] l = "mem_hdr"    -> sys = 1 /\ (sequential = 1 \/ i = 0)
      [] l = "mem_up"     -> sys = 1 /\ sequential = 0 /\ i # 0
      [] l = "mem_read"   -> sys = 1
      [] l = "usr_up"     -> user = 1 /\ sys = 0 /\ sequential = 0 /\ i # 0
      [] l = "usr_read"   -> TRUE
      [] l = "usr_sleep"  -> user = 1 /\ sys = 0
      [] l = "cpu_read"   -> sys = 1
      [] OTHER            -> FALSE

\* the condition under which a statement of the iteration is executed
Active(l) ==
    CASE l = "spawn_mem"  -> sys = 1
      [] l = "spawn_cpu"  -> sys = 1
      [] l = "fdopen_mem" -> sys = 1
      [] l = "spawn_usr"  -> user = 1
      [] l = "fdopen_usr" -> user = 1
      [] l = "title"      -> sequential = 1 \/ i = 0
      [] l = "mem_hdr"    -> sys = 1 /\ (sequential = 1 \/ i = 0)
      [] l = "mem_up"     -> sys = 1 /\ sequential = 0 /\ i # 0
      [] l = "mem_read"   -> sys = 1
      [] l = "usr_up"     -> user = 1 /\ sys = 0 /\ sequential = 0 /\ i # 0
      [] l = "usr_read"   -> user = 1
      [] l = "usr_sleep"  -> user = 1 /\ sys = 0
      [] l = "cpu_read"   -> sys = 1
      [] OTHER            -> FALSE

RECURSIVE FirstActive(_)
FirstActive(k) ==
    IF k > Len(Order) THEN "loop"
    ELSE IF Active(Order[k]) THEN Order[k] ELSE FirstActive(k + 1)

Index(l) == CHOOSE k \in 1..Len(Order) : Order[k] = l

\* the statement executed after l; "loop" when the iteration is over
After(l) == FirstActive(Index(l) + 1)

\* control moves past l; the for loop's i++ at the end of the body
Goto(l) ==
    /\ pc' = After(l)
    /\ i' = IF After(l) = "loop" THEN i + 1 ELSE i

\* a loop that runs once too often
LoopCondOffByOne(idx, s) == idx <= s

\* for (int i = 0; i < sample; i ++)
LoopCond(idx, s) == idx < s

\* the wait()/waitpid() calls made by the coordinator: there are none
Reaped == 0

Unreaped == spawned - Reaped

Alive(k) == wk[k].st \in {"running", "published"}

Terminated == pc \in {"done", "exit1", "quit"}

\* Finishing takes a worker no time: once its accessor is through, a worker
\* publishes and exits before the coordinator executes its next statement
Settled ==
    \A k \in Kinds : ~(wk[k].st = "running" /\ wk[k].rem = 0) /\ wk[k].st # "published"

\* ------------------------------------------------------------------ initial state

\* a worker that is not forked yet, and an iteration in which none is
NoChild == [at |-> "none", int |-> "", tstp |-> "", asking |-> FALSE, ran |-> {},
            quit |-> FALSE]
NoSignals == [w |-> [k \in Kinds |-> NoChild], hits |-> 0]

\* the stdio state of a worker that is not forked, and of a program whose
\* standard output is not followed
NoBuf == [at |-> "none", buf |-> <<>>, pipe |-> <<>>]
NoIo == [mode |-> "", at |-> "idle", it |-> 0, pend |-> <<>>, tty |-> <<>>,
         child |-> [k \in Kinds |-> NoBuf], hits |-> 0]

\* vertify_arg not followed argument by argument
NoArgs == [at |-> "idle", seen |-> 0, sample_flag |-> 0, tdelay_flag |-> 0,
           positional_arg |-> 0, err |-> "",
           sv |-> {}, dv |-> {}, bare |-> <<>>, given |-> {}, last |-> ""]

\* calculate_cpu_use not called
NoStat == [at |-> "idle", prev |-> [use |-> 0, idle |-> 0],
           cur |-> [use |-> 0, idle |-> 0], cpu |-> [num |-> 0, den |-> 1]]

\* no call kept
NoCall == [curr |-> 0, prev |-> NoPrev, line |-> NoLine, between |-> FALSE]

\* the functions checked on their own, except those of the groups in
\* `active`, are not in use
Free == [k |-> "free", end |-> ""]

\* show_sys_usage is entered: no descriptor above 2 is in use, fd[3][2] and
\* the two streams are not set, nothing has been closed
FdsStart == [at |-> 0, it |-> 0, tbl |-> [d \in 3..MaxFd |-> Free],
             fd |-> [k \in Kinds |-> [r |-> -1, w |-> -1]],
             file |-> [k \in Kinds |-> -1], hits |-> {}]

\* get_memory_info is entered: nothing is read, closed or assigned
MemInfoStart == [at |-> "none", rest |-> <<>>, closed |-> FALSE, closes |-> 0,
                 late |-> 0, set |-> {}, unset |-> {}]

\* nothing is read into mem_info and nothing of it is printed
FgetsStart == [at |-> "none", len |-> 0, pipe |-> 0, got |-> 0, nl |-> FALSE,
               shown |-> 0, newlines |-> 0]

NoSub == [fdt |-> FdsStart, mi |-> MemInfoStart, lb |-> FgetsStart]

Idle(active) ==
    /\ "graph" \notin active =>
          /\ curr_use = 0
          /\ previous_use = NoPrev
          /\ graph_line = NoLine
          /\ measured = NoPrev
    /\ "calls" \notin active => ref = NoCall
    /\ "cpu" \notin active => stat = NoStat
    /\ "args" \notin active => va = NoArgs
    /\ "sigint" \notin active => sigint = 0
    /\ "signals" \notin active => sg = NoSignals
    /\ "stdio" \notin active => io = NoIo
    /\ active \cap {"fds", "meminfo", "fgets"} = {} => sub = NoSub

\* the program before main has run
Boot ==
    /\ pc = "main"
    /\ i = 0
    /\ n = 0
    /\ prev_used = NoPrev
    /\ cpu_use = -1
    /\ wk = [k \in Kinds |-> NoWorker]
    /\ ch = [k \in Kinds |-> NoPipe]
    /\ out = <<>>
    /\ memLines = 0
    /\ cpuLines = 0
    /\ usrBlocks = 0
    /\ iterBlocks = 0
    /\ lastIter = 0
    /\ osBlocks = 0
    /\ cur = 0
    /\ bottom = 0
    /\ now = 0
    /\ longest = 0
    /\ total = 0
    /\ sleepRem = 0
    /\ spawned = 0
    /\ faults = {}
    /\ abort = ""

\* a run of the program: any accepted configuration, no encoder call on its own
Init ==
    /\ sample \in 1..MaxSample
    /\ tdelay \in 0..MaxDelay
    /\ sys \in {0, 1}
    /\ user \in {0, 1}
    /\ graph \in {0, 1}
    /\ sequential \in {0, 1}
    /\ Boot
    /\ Idle({})

\* ------------------------------------------------------------------ coordinator

\* a main that leaves the two flags as vertify_arg set them
MainKeepsFlags ==
    /\ pc = "main"
    /\ va.at \in {"idle", "accepted"}
    /\ pc' = "loop"
    /\ UNCHANGED <<enc, config, flags, i, n, prev_used, cpu_use, wk, ch, term, clock,
                   spawned, faults, abort>>

\* main: both sections are shown when neither --system nor --user is given
Main ==
    /\ pc = "main"
    /\ va.at \in {"idle", "accepted"}
    /\ sys' = IF sys = 0 /\ user = 0 THEN 1 ELSE sys
    /\ user' = IF sys = 0 /\ user = 0 THEN 1 ELSE user
    /\ pc' = "loop"
    /\ UNCHANGED <<enc, config, i, n, prev_used, cpu_use, wk, ch, term, clock, spawned,
                   faults, abort>>

\* perror(...); exit(1): the coordinator ends, its descriptors are closed
Abort(reason, c) ==
    /\ pc' = "exit1"
    /\ abort' = reason
    /\ ch' = ProcExit(c, "parent")

\* the head of the for loop.  The workers and pipes of the iteration that is
\* over are dropped from the state
Loop ==
    /\ Settled
    /\ pc = "loop"
    /\ pc' = IF LoopCond(i, sample) THEN FirstActive(1) ELSE "tail"
    /\ now' = 0
    /\ longest' = 0
    /\ total' = 0
    /\ cpu_use' = IF cpu_use = 1 THEN 0 ELSE cpu_use
    /\ out' = <<>>
    /\ faults' = {}
    /\ wk' = [k \in Kinds |-> NoWorker]
    /\ ch' = [k \in Kinds |-> IF "parent" \in ch[k].w \cup ch[k].r THEN ch[k] ELSE NoPipe]
    /\ UNCHANGED <<enc, config, flags, i, n, prev_used, memLines, cpuLines, usrBlocks,
                   iterBlocks, lastIter, osBlocks, cur, bottom, sleepRem, spawned,
                   abort>>

\* read_memory_info / read_cpu_info / read_user_info called at label l: pipe,
\* fork, in the child close of the reading end, in the parent close of the
\* writing end.  The cpu accessor takes tdelay ticks (its sleep)
SpawnWith(k, l, sessions) ==
    /\ Settled
    /\ pc = l
    /\ \E c \in 0..Max2(MaxCost, tdelay), u \in sessions :
          /\ k = "cpu" => c = tdelay
          /\ k # "cpu" => c <= MaxCost
          /\ k # "usr" => u = 0
          /\ wk' = [wk EXCEPT ![k] = [st |-> "running", rem |-> c, fresh |-> TRUE,
                                       users |-> u]]
          /\ longest' = Max2(longest, c)
          /\ total' = total + c
    /\ ch' = ParentCloseWrite(ChildCloseRead(ForkCopy(PipeCreate(ch, k), k), k), k)
    /\ spawned' = spawned + 1
    /\ Goto(l)
    /\ UNCHANGED <<enc, config, flags, n, prev_used, cpu_use, term, now, sleepRem,
                   faults, abort>>

\* the sessions that the users worker finds are 0..MaxUsers
Spawn(k, l) == SpawnWith(k, l, 0..MaxUsers)

ReadMemoryInfo == Spawn("mem", "spawn_mem")

ReadCpuInfo == Spawn("cpu", "spawn_cpu")

ReadUserInfo == Spawn("usr", "spawn_usr")

\* mem_file = fdopen(fd[0][0], "r") / user_file = fdopen(fd[1][0], "r")
Fdopen(l) ==
    /\ Settled
    /\ pc = l
    /\ Goto(l)
    /\ UNCHANGED <<enc, config, flags, n, prev_used, cpu_use, wk, ch, term, clock,
                   spawned, faults, abort>>

FdopenMem == Fdopen("fdopen_mem")

FdopenUsr == Fdopen("fdopen_usr")

\* show_runtime_info: the memory usage of the process and a separator
ShowRuntimeInfo(it) == <<Ev("runtime", it, 0), Ev("sep", it, 0)>>

\* show_sys_info: the OS identity block
ShowSysInfo(it) ==
    <<Ev("oshdr", it, 0), Ev("osname", it, 0), Ev("osnode", it, 0),
      Ev("osversion", it, 0), Ev("osrelease", it, 0), Ev("osarch", it, 0),
      Ev("sep", it, 0)>>

\* a title step that prints the OS identity block with every report
TitleWithSysInfo ==
    /\ Settled
    /\ pc = "title"
    /\ Output((IF sequential = 1 THEN <<Ev("iter", i, i + 1)>> ELSE <<>>)
              \o ShowRuntimeInfo(i) \o ShowSysInfo(i))
    /\ Goto("title")
    /\ UNCHANGED <<enc, config, flags, n, prev_used, cpu_use, wk, ch, clock, spawned,
                   faults, abort>>

\* the iteration title (sequential mode) and the runtime information
Title ==
    /\ Settled
    /\ pc = "title"
    /\ Output((IF sequential = 1 THEN <<Ev("iter", i, i + 1)>> ELSE <<>>)
              \o ShowRuntimeInfo(i))
    /\ Goto("title")
    /\ UNCHANGED <<enc, config, flags, n, prev_used, cpu_use, wk, ch, clock, spawned,
                   faults, abort>>

\* the title of the memory section and the rows reserved above the current one
MemHeader ==
    /\ Settled
    /\ pc = "mem_hdr"
    /\ Output(<<Ev("memhdr", i, 0)>> \o Rep(i, Ev("nl", i, 0)))
    /\ Goto("mem_hdr")
    /\ UNCHANGED <<enc, config, flags, n, prev_used, cpu_use, wk, ch, clock, spawned,
                   faults, abort>>

\* a move back up that forgets the rows already used
MemMoveUpFixed ==
    /\ Settled
    /\ pc = "mem_up"
    /\ Output(<<Ev("up", i, sample + 3)>>
              \o (IF user = 1 THEN <<Ev("up", i, n)>> ELSE <<>>)
              \o (IF graph = 1 THEN <<Ev("up", i, i)>> ELSE <<>>))
    /\ Goto("mem_up")
    /\ UNCHANGED <<enc, config, flags, n, prev_used, cpu_use, wk, ch, clock, spawned,
                   faults, abort>>

\* refresh mode: move the cursor back up to the memory section
MemMoveUp ==
    /\ Settled
    /\ pc = "mem_up"
    /\ Output(<<Ev("up", i, sample - i + 3)>>
              \o (IF user = 1 THEN <<Ev("up", i, n)>> ELSE <<>>)
              \o (IF graph = 1 THEN <<Ev("up", i, i)>> ELSE <<>>))
    /\ Goto("mem_up")
    /\ UNCHANGED <<enc, config, flags, n, prev_used, cpu_use, wk, ch, clock, spawned,
                   faults, abort>>

\* fgets on the memory pipe; then the memory line, the reserved rows and the
\* separator, or perror and exit(1) when fgets returns NULL
MemRead ==
    /\ Settled
    /\ pc = "mem_read"
    /\ Ready("mem")
    /\ IF ch["mem"].buf = <<>>
       THEN /\ Abort("fgets", ch)
            /\ UNCHANGED <<i, prev_used, term>>
       ELSE /\ Output(<<Ev("mem", i, Head(ch["mem"].buf))>>
                      \o Rep(sample - i - 1, Ev("nl", i, 0))
                      \o <<Ev("sep", i, 0)>>)
            /\ prev_used' = Head(ch["mem"].buf).used
            /\ ch' = ParentCloseRead([ch EXCEPT !["mem"].buf = Tail(@)], "mem")
            /\ Goto("mem_read")
            /\ UNCHANGED abort
    /\ UNCHANGED <<enc, config, flags, n, cpu_use, wk, clock, spawned, faults>>

\* a move up over the sessions of the last block, its two frame lines left out
UsrMoveUpSessionsOnly ==
    /\ Settled
    /\ pc = "usr_up"
    /\ Output(<<Ev("up", i, Max2(n - 2, 0))>>)
    /\ Goto("usr_up")
    /\ UNCHANGED <<enc, config, flags, n, prev_used, cpu_use, wk, ch, clock, spawned,
                   faults, abort>>

\* refresh mode with only the users section: move up over the last block
UsrMoveUp ==
    /\ Settled
    /\ pc = "usr_up"
    /\ Output(<<Ev("up", i, n)>>)
    /\ Goto("usr_up")
    /\ UNCHANGED <<enc, config, flags, n, prev_used, cpu_use, wk, ch, clock, spawned,
                   faults, abort>>

\* a users read that does not restart its count
UsrReadNoReset ==
    /\ Settled
    /\ pc = "usr_read"
    /\ AtEof("usr")
    /\ Output([x \in 1..Len(ch["usr"].buf) |-> Ev("usr", i, x)])
    /\ n' = n + Len(ch["usr"].buf)
    /\ ch' = ParentCloseRead([ch EXCEPT !["usr"].buf = <<>>], "usr")
    /\ sleepRem' = IF sys = 0 THEN tdelay ELSE 0
    /\ Goto("usr_read")
    /\ UNCHANGED <<enc, config, flags, prev_used, cpu_use, wk, now, longest, total,
                   spawned, faults, abort>>

\* the fgets loop on the users pipe: every line is printed and counted
UsrRead ==
    /\ Settled
    /\ pc = "usr_read"
    /\ AtEof("usr")
    /\ Output([x \in 1..Len(ch["usr"].buf) |-> Ev("usr", i, x)])
    /\ n' = Len(ch["usr"].buf)
    /\ ch' = ParentCloseRead([ch EXCEPT !["usr"].buf = <<>>], "usr")
    /\ sleepRem' = IF sys = 0 THEN tdelay ELSE 0
    /\ Goto("usr_read")
    /\ UNCHANGED <<enc, config, flags, prev_used, cpu_use, wk, now, longest, total,
                   spawned, faults, abort>>

\* if (sys == 0) sleep(tdelay): returns when the time is over
UsrSleep ==
    /\ Settled
    /\ pc = "usr_sleep"
    /\ sleepRem = 0
    /\ Goto("usr_sleep")
    /\ UNCHANGED <<enc, config, flags, n, prev_used, cpu_use, wk, ch, term, clock,
                   spawned, faults, abort>>

\* read on the cpu pipe (a return of 0 bytes leaves cpu_use as it was), then
\* the cores and cpu lines and the cpu graph
CpuRead ==
    /\ Settled
    /\ pc = "cpu_read"
    /\ Ready("cpu")
    /\ LET val == IF ch["cpu"].buf # <<>> THEN 1 ELSE cpu_use
       IN  /\ cpu_use' = val
           /\ Output(<<Ev("cores", i, 0), Ev("cpu", i, val)>>
                     \o (IF sequential = 1 /\ graph = 1
                         THEN <<Ev("cpugraph", i, val)>>
                         ELSE IF graph = 1
                              THEN <<Ev("down", i, i), Ev("cpugraph", i, val)>>
                              ELSE <<>>))
    /\ ch' = ParentCloseRead([ch EXCEPT !["cpu"].buf = <<>>], "cpu")
    /\ Goto("cpu_read")
    /\ UNCHANGED <<enc, config, flags, n, prev_used, wk, clock, spawned, faults, abort>>

\* after the loop: move below the report, closing separator, OS identity;
\* main returns
Tail_ ==
    /\ Settled
    /\ pc = "tail"
    /\ Output(<<Ev("down", i, 3)>>
              \o (IF user = 1 /\ sequential = 0 THEN <<Ev("down", i, n)>> ELSE <<>>)
              \o (IF graph = 1 /\ sequential = 0
                  THEN <<Ev("down", i, sample + 1)>> ELSE <<>>)
              \o (IF sys = 1 THEN <<Ev("sep", i, 0)>> ELSE <<>>)
              \o ShowSysInfo(i))
    /\ pc' = "done"
    /\ ch' = ProcExit(ch, "parent")
    /\ UNCHANGED <<enc, config, flags, i, n, prev_used, cpu_use, wk, clock, spawned,
                   faults, abort>>

\* ------------------------------------------------------------------ failing calls

\* the call the coordinator is about to make fails: perror and exit(1).
\* pipe and fork fail in read_*_info, fdopen and read in show_sys_usage
CallFails(reason) ==
    /\ Settled
    /\ \/ reason \in {"pipe", "fork"} /\ pc \in {"spawn_mem", "spawn_cpu", "spawn_usr"}
       \/ reason = "fdopen" /\ pc \in {"fdopen_mem", "fdopen_usr"}
       \/ reason = "read" /\ pc = "cpu_read" /\ Ready("cpu")
    /\ Abort(reason, ch)
    /\ UNCHANGED <<enc, config, flags, i, n, prev_used, cpu_use, wk, term, clock,
                   spawned, faults>>

\* ------------------------------------------------------------------ SIGINT

\* a handler that forgets the sessions of the iteration before when the
\* answer is not 'y'
CtrlCResetsUsers(answer) ==
    /\ pc \notin {"main", "done", "exit1", "quit"}
    /\ IF answer = "y"
       THEN /\ pc' = "quit"
            /\ ch' = ProcExit(ch, "parent")
            /\ UNCHANGED <<n, sigint, sleepRem, bottom>>
       ELSE /\ sigint < MaxSignals
            /\ sigint' = sigint + 1
            /\ n' = 0
            /\ sleepRem' = 0
            /\ bottom' = Max2(bottom, cur + 1)
            /\ UNCHANGED <<pc, ch>>
    /\ UNCHANGED <<sub, memg, stat, va, sg, io, config, flags, i, prev_used, cpu_use, wk, out,
                   memLines, cpuLines, usrBlocks, iterBlocks, lastIter, osBlocks, cur,
                   now, longest, total, spawned, faults, abort>>

\* ctrlc_handler in the coordinator: 'y' / 'Y' ends the program with exit(0).
\* Any other answer resumes it where it was: the signal has ended a sleep()
\* under way, the answer and its newline were echoed below the prompt, and
\* move_up(1) with the erase sequence bring the cursor back
CtrlC(answer) ==
    /\ pc \notin {"main", "done", "exit1", "quit"}
    /\ IF answer = "y"
       THEN /\ pc' = "quit"
            /\ ch' = ProcExit(ch, "parent")
            /\ UNCHANGED <<n, sigint, sleepRem, bottom>>
       ELSE /\ sigint < MaxSignals
            /\ sigint' = sigint + 1
            /\ sleepRem' = 0
            /\ bottom' = Max2(bottom, cur + 1)
            /\ UNCHANGED <<n, pc, ch>>
    /\ UNCHANGED <<sub, memg, stat, va, sg, io, config, flags, i, prev_used, cpu_use, wk, out,
                   memLines, cpuLines, usrBlocks, iterBlocks, lastIter, osBlocks, cur,
                   now, longest, total, spawned, faults, abort>>

\* ------------------------------------------------------------------ workers

\* what the accessor of worker k writes to its pipe
Published(k) ==
    CASE k = "usr" -> [x \in 1..(wk[k].users + 2) |-> x]
      [] k = "mem" -> <<[used |-> i, graph |-> graph]>>
      [] OTHER     -> <<i>>

\* calculate_cpu_use has finished: write() puts the value in the pipe
WorkerPublish(k) ==
    /\ ~Terminated
    /\ k = "cpu"
    /\ wk[k].st = "running"
    /\ wk[k].rem = 0
    /\ wk' = [wk EXCEPT ![k].st = "published", ![k].fresh = FALSE]
    /\ ch' = [ch EXCEPT ![k].buf = Published(k)]
    /\ UNCHANGED <<enc, config, flags, pc, i, n, prev_used, cpu_use, term, clock,
                   spawned, faults, abort>>

\* close(fd[STDOUT_FILENO]); exit(0).  The memory and users workers print
\* with printf to a pipe: their output reaches the pipe when exit flushes it
WorkerExit(k) ==
    /\ ~Terminated
    /\ IF k = "cpu" THEN wk[k].st = "published"
                    ELSE wk[k].st = "running" /\ wk[k].rem = 0
    /\ wk' = [wk EXCEPT ![k] = [NoWorker EXCEPT !.st = "zombie"]]
    /\ ch' = ProcExit(IF k = "cpu" THEN ch ELSE [ch EXCEPT ![k].buf = Published(k)], k)
    /\ UNCHANGED <<enc, config, flags, pc, i, n, prev_used, cpu_use, term, clock,
                   spawned, faults, abort>>

\* the worker cannot open its source (or dup2 / signal fails): perror and
\* exit(1) before anything is written
WorkerFail(k) ==
    /\ ~Terminated
    /\ wk[k].st = "running"
    /\ wk[k].fresh
    /\ Cardinality(faults) < MaxFaults
    /\ wk' = [wk EXCEPT ![k] = [NoWorker EXCEPT !.st = "zombie"]]
    /\ ch' = ProcExit(ch, k)
    /\ faults' = faults \cup {k}
    /\ UNCHANGED <<enc, config, flags, pc, i, n, prev_used, cpu_use, term, clock,
                   spawned, abort>>

\* ------------------------------------------------------------------ time

\* the coordinator waits: in a blocking read that cannot return, or asleep
Blocked ==
    \/ pc = "mem_read" /\ ~Ready("mem")
    \/ pc = "usr_read" /\ ~AtEof("usr")
    \/ pc = "cpu_read" /\ ~Ready("cpu")
    \/ pc = "usr_sleep" /\ sleepRem > 0

\* one tick passes: every running accessor and the sleeping coordinator advance
Tick ==
    /\ Blocked
    /\ Settled
    /\ (\E k \in Kinds : wk[k].st = "running") \/ (pc = "usr_sleep" /\ sleepRem > 0)
    /\ wk' = [k \in Kinds |->
                IF wk[k].st = "running"
                THEN [wk[k] EXCEPT !.rem = @ - 1, !.fresh = FALSE] ELSE wk[k]]
    /\ sleepRem' = IF pc = "usr_sleep" /\ sleepRem > 0 THEN sleepRem - 1 ELSE sleepRem
    /\ now' = now + 1
    /\ UNCHANGED <<enc, config, flags, pc, i, n, prev_used, cpu_use, ch, term, longest,
                   total, spawned, faults, abort>>

\* ------------------------------------------------------------------ specifications

\* a run in which no call fails, in the coordinator or in a worker, and no
\* signal arrives
NextCalm ==
    \/ Main
    \/ Loop
    \/ ReadMemoryInfo
    \/ ReadCpuInfo
    \/ ReadUserInfo
    \/ FdopenMem
    \/ FdopenUsr
    \/ Title
    \/ MemHeader
    \/ MemMoveUp
    \/ MemRead
    \/ UsrMoveUp
    \/ UsrRead
    \/ UsrSleep
    \/ CpuRead
    \/ Tail_
    \/ \E k \in Kinds : WorkerPublish(k)
    \/ \E k \in Kinds : WorkerExit(k)
    \/ Tick

\* a run in which no call of the coordinator fails and no signal arrives
NextRun ==
    \/ NextCalm
    \/ \E k \in Kinds : WorkerFail(k)

Next ==
    \/ NextRun
    \/ \E reason \in {"pipe", "fork", "fdopen", "read"} : CallFails(reason)
    \/ \E answer \in {"y", "n"} : CtrlC(answer)

Spec == Init /\ [][Next]_vars

SpecRun == Init /\ [][NextRun]_vars

\* a run in which no call fails and no signal arrives
SpecCalm == Init /\ [][NextCalm]_vars

\* a refresh run in which no call fails and the users worker finds either no
\* session or ManySessions of them
ReadUserInfoManySessions == SpawnWith("usr", "spawn_usr", {0, ManySessions})

InitSessions == Init /\ sequential = 0

NextSessions ==
    \/ Main
    \/ Loop
    \/ ReadMemoryInfo
    \/ ReadCpuInfo
    \/ ReadUserInfoManySessions
    \/ FdopenMem
    \/ FdopenUsr
    \/ Title
    \/ MemHeader
    \/ MemMoveUp
    \/ MemRead
    \/ UsrMoveUp
    \/ UsrRead
    \/ UsrSleep
    \/ CpuRead
    \/ Tail_
    \/ \E k \in Kinds : WorkerPublish(k)
    \/ \E k \in Kinds : WorkerExit(k)
    \/ Tick

SpecSessions == InitSessions /\ [][NextSessions]_vars

\* a run in which no call fails and Ctrl-C is hit
NextCtrlC == NextCalm \/ \E answer \in {"y", "n"} : CtrlC(answer)

SpecCtrlC == Init /\ [][NextCtrlC]_vars

\* ------------------------------------------------------------------ encoder on its own

\* a call of show_memory_graph with any amounts, the first one included
InitGraph ==
    /\ sample = 1
    /\ tdelay = 0
    /\ sys = 1
    /\ user = 0
    /\ graph = 1
    /\ sequential = 0
    /\ Boot
    /\ curr_use \in 0..MaxUse
    /\ previous_use \in {NoPrev} \cup (0..MaxUse)
    /\ graph_line = NoLine
    /\ measured = NoPrev
    /\ Idle({"graph"})

CallShowMemoryGraph ==
    /\ graph_line = NoLine
    /\ graph_line' = ShowMemoryGraph(curr_use, previous_use)
    /\ UNCHANGED <<alone, curr_use, previous_use, measured, ref, config, flags, pc, i, n,
                   prev_used, cpu_use, wk, ch, term, clock, spawned, faults, abort>>

NextGraph == CallShowMemoryGraph

SpecGraph == InitGraph /\ [][NextGraph]_vars

\* ------------------------------------------------------------------ signals in the workers

\* the three workers of one iteration, statement by statement, and the
\* signals the terminal sends to the foreground process group meanwhile
InitSignals ==
    /\ sample = 1
    /\ tdelay = 0
    /\ sys = 1
    /\ user = 1
    /\ graph = 0
    /\ sequential = 0
    /\ Boot
    /\ sg = NoSignals
    /\ Idle({"signals"})

\* the order in which show_sys_usage forks its workers
ForkedBefore(k) ==
    CASE k = "mem" -> {}
      [] k = "cpu" -> {"mem"}
      [] OTHER     -> {"mem", "cpu"}

\* fork(): the child starts with the dispositions of the coordinator, the
\* handlers that set_signals_parent has installed
ForkChild(k) ==
    /\ sg.w[k].at = "none"
    /\ \A j \in ForkedBefore(k) : sg.w[j].at # "none"
    /\ sg' = [sg EXCEPT !.w[k] = [NoChild EXCEPT !.at = "close", !.int = "ctrlc_handler",
                                                 !.tstp = "ctrlz_handler"]]
    /\ UNCHANGED <<sub, memg, stat, va, sigint, io, config, flags, prog>>

\* the statements of the child, in order: close(fd[0]), dup2, set_signals_child,
\* the accessor, close(fd[1]) and exit(0).  A child whose handler waits for an
\* answer does not advance
ChildStep(k) ==
    /\ sg.w[k].at \in {"close", "dup2", "set_signals_child", "accessor", "exit"}
    /\ ~sg.w[k].asking
    /\ sg' = [sg EXCEPT !.w[k] =
            CASE @.at = "close" -> [@ EXCEPT !.at = "dup2"]
              [] @.at = "dup2" -> [@ EXCEPT !.at = "set_signals_child"]
              [] @.at = "set_signals_child" ->
                    [@ EXCEPT !.at = "accessor", !.int = "SIG_IGN", !.tstp = "SIG_IGN"]
              [] @.at = "accessor" -> [@ EXCEPT !.at = "exit"]
              [] OTHER -> [@ EXCEPT !.at = "exited"]]
    /\ UNCHANGED <<sub, memg, stat, va, sigint, io, config, flags, prog>>

\* what a signal does to one process, by its disposition: nothing when it is
\* ignored or the process is not there; ctrlz_handler runs and returns;
\* ctrlc_handler prompts and waits in getchar()
Deliver(c, s) ==
    IF c.at \in {"none", "exited"} \/ c.asking THEN c
    ELSE IF s = "SIGINT" /\ c.int = "ctrlc_handler"
    THEN [c EXCEPT !.asking = TRUE, !.ran = @ \cup {"ctrlc_handler"}]
    ELSE IF s = "SIGTSTP" /\ c.tstp = "ctrlz_handler"
    THEN [c EXCEPT !.ran = @ \cup {"ctrlz_handler"}]
    ELSE c

\* Ctrl-C or Ctrl-Z at the terminal: the signal goes to every process of the
\* foreground group, the workers included
Signal(s) ==
    /\ sg.hits < MaxSignals
    /\ \E k \in Kinds : sg.w[k].at \notin {"none", "exited"}
    /\ sg' = [w |-> [k \in Kinds |-> Deliver(sg.w[k], s)], hits |-> sg.hits + 1]
    /\ UNCHANGED <<sub, memg, stat, va, sigint, io, config, flags, prog>>

\* the answer read by getchar() in the ctrlc_handler of child k: exit(0) on
\* 'y' / 'Y', else the child goes on
ChildAnswer(k, answer) ==
    /\ sg.w[k].asking
    /\ sg' = [sg EXCEPT !.w[k] =
            IF answer = "y"
            THEN [@ EXCEPT !.asking = FALSE, !.at = "exited", !.quit = TRUE]
            ELSE [@ EXCEPT !.asking = FALSE]]
    /\ UNCHANGED <<sub, memg, stat, va, sigint, io, config, flags, prog>>

NextSignals ==
    \/ \E k \in Kinds : ForkChild(k)
    \/ \E k \in Kinds : ChildStep(k)
    \/ \E s \in {"SIGINT", "SIGTSTP"} : Signal(s)
    \/ \E k \in Kinds, answer \in {"y", "n"} : ChildAnswer(k, answer)

SpecSignals == InitSignals /\ [][NextSignals]_vars

\* ------------------------------------------------------------------ standard output

\* the standard output of the coordinator and of its workers: stdout is line
\* buffered when it is a terminal and fully buffered when it is a pipe or a
\* file, and the program never calls fflush.  Texts are kept by name: "nbr" is
\* the line of main, "report" the lines of an iteration, "esc" the escape
\* sequences of ctrlc_handler, a kind the output of that accessor
InitFork ==
    /\ sample \in 1..MaxSample
    /\ tdelay = 0
    /\ sys = 1
    /\ user = 1
    /\ graph = 0
    /\ sequential = 0
    /\ Boot
    /\ \E m \in {"line", "full"} : io = [NoIo EXCEPT !.mode = m, !.at = "main"]
    /\ Idle({"stdio"})

\* printf of a text that ends with a newline into a stdio buffer b whose
\* descriptor 1 holds f: a line buffered stream writes the buffer out, a fully
\* buffered one keeps it (a buffer that fills up is not explored)
PrintLine(mode, b, f, text) ==
    IF mode = "line" THEN [buf |-> <<>>, fd |-> f \o b \o <<text>>]
    ELSE [buf |-> b \o <<text>>, fd |-> f]

\* main: printf("Nbr of samples: %d -- every %d secs\n", sample, tdelay)
MainPrintf ==
    /\ io.at = "main"
    /\ LET r == PrintLine(io.mode, io.pend, io.tty, "nbr")
       IN  io' = [io EXCEPT !.at = "fork", !.pend = r.buf, !.tty = r.fd]
    /\ UNCHANGED <<sub, memg, stat, va, sigint, sg, config, flags, prog>>

\* fork() in read_memory_info, read_cpu_info, read_user_info: the child gets a
\* copy of the memory of the coordinator, the stdout buffer included
ForkWorker(k) ==
    /\ io.at = "fork"
    /\ io.it < sample
    /\ io.child[k].at = "none"
    /\ \A j \in ForkedBefore(k) : io.child[j].at # "none"
    /\ io' = [io EXCEPT !.child[k] = [at |-> "accessor", buf |-> io.pend, pipe |-> <<>>]]
    /\ UNCHANGED <<sub, memg, stat, va, sigint, sg, config, flags, prog>>

\* the accessor after dup2: get_memory_info and show_session_user print lines
\* with printf, calculate_cpu_use calls write() on the descriptor
WorkerAccessor(k) ==
    /\ io.child[k].at = "accessor"
    /\ LET c == io.child[k]
           r == IF k = "cpu" THEN [buf |-> c.buf, fd |-> c.pipe \o <<k>>]
                ELSE PrintLine(io.mode, c.buf, c.pipe, k)
       IN  io' = [io EXCEPT !.child[k] = [at |-> "exit", buf |-> r.buf, pipe |-> r.fd]]
    /\ UNCHANGED <<sub, memg, stat, va, sigint, sg, config, flags, prog>>

\* close(fd[1]); exit(0): exit writes out what the stdout buffer holds, to
\* descriptor 1, which dup2 has made the pipe
WorkerFlushExit(k) ==
    /\ io.child[k].at = "exit"
    /\ io' = [io EXCEPT !.child[k] =
                  [at |-> "exited", buf |-> <<>>, pipe |-> @.pipe \o @.buf]]
    /\ UNCHANGED <<sub, memg, stat, va, sigint, sg, config, flags, prog>>

\* the rest of the iteration in the coordinator: the pipes are read and the
\* report lines printed; the next iteration starts with new pipes
Report ==
    /\ io.at = "fork"
    /\ \A k \in Kinds : io.child[k].at = "exited"
    /\ LET r == PrintLine(io.mode, io.pend, io.tty, "report")
       IN  io' = [io EXCEPT !.it = @ + 1, !.pend = r.buf, !.tty = r.fd,
                            !.child = [k \in Kinds |-> NoBuf]]
    /\ UNCHANGED <<sub, memg, stat, va, sigint, sg, config, flags, prog>>

\* ctrlc_handler in the coordinator, answered otherwise than by 'y' / 'Y':
\* move_up(1) and printf("\033[2K") print no newline
HandlerPrintf ==
    /\ io.at = "fork"
    /\ io.hits < MaxSignals
    /\ io' = [io EXCEPT !.pend = @ \o <<"esc">>, !.hits = @ + 1]
    /\ UNCHANGED <<sub, memg, stat, va, sigint, sg, config, flags, prog>>

\* after the last iteration: show_sys_info and the return of main, which
\* writes out the buffer
MainReturn ==
    /\ io.at = "fork"
    /\ io.it = sample
    /\ io' = [io EXCEPT !.at = "done", !.pend = <<>>, !.tty = @ \o io.pend \o <<"sysinfo">>]
    /\ UNCHANGED <<sub, memg, stat, va, sigint, sg, config, flags, prog>>

NextFork ==
    \/ MainPrintf
    \/ \E k \in Kinds : ForkWorker(k)
    \/ \E k \in Kinds : WorkerAccessor(k)
    \/ \E k \in Kinds : WorkerFlushExit(k)
    \/ Report
    \/ HandlerPrintf
    \/ MainReturn

SpecFork == InitFork /\ [][NextFork]_vars

\* ------------------------------------------------------------------ arguments

\* the integers given on the command line
Vals == (-1)..MaxArg

\* the arguments: the four switches, "--samples=N", "--tdelay=T", a bare
\* integer, anything else
Switches == {"--system", "--user", "--graphics", "--sequential"}
Tokens == [k : Switches \cup {"other"}, v : {0}]
              \cup [k : {"--samples=", "--tdelay=", "int"}, v : Vals]

\* handle_error: the message goes to stderr and the program exits
HandleError(c, bad, msg) == IF bad /\ c.err = "" THEN [c EXCEPT !.err = msg] ELSE c

\* a value that never counts as different from the value already given
DiffersNever(flag, old, new) == FALSE

\* the value of a repeated parameter is not the one given before
Differs(flag, old, new) == flag # 0 /\ old # new

\* the value set by the first occurrence of a parameter
Assign(flag, old, new) == IF flag = 0 THEN new ELSE old

\* the body of the for loop of vertify_arg for one argument a, on the record
\* c of the values behind its pointer parameters and its locals
VertifyOne(c, a) ==
    CASE a.k = "--system" -> [c EXCEPT !.sys = 1]
      [] a.k = "--user" -> [c EXCEPT !.user = 1]
      [] a.k = "--graphics" -> [c EXCEPT !.graph = 1]
      [] a.k = "--sequential" -> [c EXCEPT !.sequential = 1]
      [] a.k = "--samples=" ->
            LET d == [c EXCEPT !.sample = Assign(c.sample_flag, c.sample, a.v),
                               !.sample_flag = 1]
                e == HandleError(d, Differs(c.sample_flag, c.sample, a.v),
                                 "samples consistent")
            IN  HandleError(e, e.sample <= 0, "samples positive")
      [] a.k = "--tdelay=" ->
            LET d == [c EXCEPT !.tdelay = Assign(c.tdelay_flag, c.tdelay, a.v),
                               !.tdelay_flag = 1]
                e == HandleError(d, Differs(c.tdelay_flag, c.tdelay, a.v),
                                 "tdelay consistent")
            IN  HandleError(e, e.tdelay < 0, "tdelay positive")
      [] a.k = "int" /\ c.positional_arg = 0 ->
            LET d == [c EXCEPT !.sample = Assign(c.sample_flag, c.sample, a.v),
                               !.sample_flag = 1]
                e == HandleError(d, Differs(c.sample_flag, c.sample, a.v),
                                 "samples consistent")
                f == HandleError(e, e.sample <= 0, "samples positive")
            IN  [f EXCEPT !.positional_arg = @ + 1]
      [] a.k = "int" /\ c.positional_arg = 1 ->
            LET d == [c EXCEPT !.tdelay = Assign(c.tdelay_flag, c.tdelay, a.v),
                               !.tdelay_flag = 1]
                e == HandleError(d, Differs(c.tdelay_flag, c.tdelay, a.v),
                                 "tdelay consistent")
                f == HandleError(e, e.sample <= 0, "tdelay positive")
            IN  [f EXCEPT !.positional_arg = @ + 1]
      [] a.k = "int" /\ c.positional_arg > 1 ->
            HandleError(c, TRUE, "no more than 2 integers")
      [] OTHER -> HandleError(c, TRUE, "invalid arguments")

\* main before vertify_arg: the defaults, every flag 0
InitArgs ==
    /\ sample = DefaultSample
    /\ tdelay = DefaultDelay
    /\ sys = 0
    /\ user = 0
    /\ graph = 0
    /\ sequential = 0
    /\ Boot
    /\ va = [NoArgs EXCEPT !.at = "parsing"]
    /\ Idle({"args"})

\* one turn of the for loop, for the next argument of argv.  What argv has
\* held is kept: the values of --samples= and of --tdelay= (sv, dv), the bare
\* integers in order, the kinds of argument, the kind of the last one
VertifyArgNext ==
    /\ va.at = "parsing"
    /\ va.seen < MaxArgs
    /\ \E a \in Tokens :
          LET c == [sample |-> sample, tdelay |-> tdelay, sys |-> sys, user |-> user,
                    graph |-> graph, sequential |-> sequential,
                    sample_flag |-> va.sample_flag, tdelay_flag |-> va.tdelay_flag,
                    positional_arg |-> va.positional_arg, err |-> ""]
              d == VertifyOne(c, a)
          IN  /\ sample' = d.sample
              /\ tdelay' = d.tdelay
              /\ sys' = d.sys
              /\ user' = d.user
              /\ graph' = d.graph
              /\ sequential' = d.sequential
              /\ va' = [at |-> IF d.err = "" THEN "parsing" ELSE "rejected",
                        seen |-> va.seen + 1,
                        sample_flag |-> d.sample_flag,
                        tdelay_flag |-> d.tdelay_flag,
                        positional_arg |-> d.positional_arg,
                        err |-> d.err,
                        sv |-> IF a.k = "--samples=" THEN va.sv \cup {a.v} ELSE va.sv,
                        dv |-> IF a.k = "--tdelay=" THEN va.dv \cup {a.v} ELSE va.dv,
                        bare |-> IF a.k = "int" THEN Append(va.bare, a.v) ELSE va.bare,
                        given |-> va.given \cup {a.k},
                        last |-> a.k]
    /\ UNCHANGED <<sub, memg, stat, sigint, sg, io, prog>>

\* the end of argv: vertify_arg returns to main
VertifyArgReturn ==
    /\ va.at = "parsing"
    /\ va' = [va EXCEPT !.at = "accepted"]
    /\ UNCHANGED <<sub, memg, stat, sigint, sg, io, config, flags, prog>>

NextArgs == VertifyArgNext \/ VertifyArgReturn \/ Main

SpecArgs == InitArgs /\ [][NextArgs]_vars

\* ------------------------------------------------------------------ cpu use

\* calculate_cpu_use(tdelay) on its own. A reading of the first line of
\* /proc/stat is kept as its two sums: use = user + nice + system + irq +
\* softirq and idle = idle + iowait, in ticks
InitCpu ==
    /\ sample = 1
    /\ tdelay \in 0..MaxDelay
    /\ sys = 1
    /\ user = 0
    /\ graph = 0
    /\ sequential = 0
    /\ Boot
    /\ stat = [NoStat EXCEPT !.at = "first"]
    /\ Idle({"cpu"})

\* the first fscanf of the line "cpu ..."
FirstReading ==
    /\ stat.at = "first"
    /\ \E u \in 0..MaxTicks, d \in 0..MaxTicks :
          stat' = [stat EXCEPT !.at = "second", !.prev = [use |-> u, idle |-> d]]
    /\ UNCHANGED <<sub, memg, va, sigint, sg, io, config, flags, prog>>

\* sleep(tdelay), rewind and the second fscanf: the counters never decrease,
\* and a processor accounts at least one tick in a delay of a second or more
SecondReading ==
    /\ stat.at = "second"
    /\ \E u \in stat.prev.use..MaxTicks, d \in stat.prev.idle..MaxTicks :
          /\ tdelay > 0 => u + d > stat.prev.use + stat.prev.idle
          /\ stat' = [stat EXCEPT !.at = "compute", !.cur = [use |-> u, idle |-> d]]
    /\ UNCHANGED <<sub, memg, va, sigint, sg, io, config, flags, prog>>

\* cpu_use = 100 * (double)numerator / (double)denominator, kept as the
\* fraction num / den; 0 / 0 is not a number
CpuUse(first, second) ==
    LET numerator == second.use - first.use
        denominator == numerator + second.idle - first.idle
    IN  [num |-> 100 * numerator, den |-> denominator]

\* the computation and the write of the result
WriteCpuUse ==
    /\ stat.at = "compute"
    /\ stat' = [stat EXCEPT !.at = "done", !.cpu = CpuUse(stat.prev, stat.cur)]
    /\ UNCHANGED <<sub, memg, va, sigint, sg, io, config, flags, prog>>

NextCpu == FirstReading \/ SecondReading \/ WriteCpuUse

SpecCpu == InitCpu /\ [][NextCpu]_vars

\* ------------------------------------------------------------------ repeated calls

\* show_memory_graph called again and again with any arguments; the first call
\* is kept for comparison, with whether a call with other arguments followed
InitCalls ==
    /\ sample = 1
    /\ tdelay = 0
    /\ sys = 1
    /\ user = 0
    /\ graph = 1
    /\ sequential = 0
    /\ Boot
    /\ curr_use = 0
    /\ previous_use = NoPrev
    /\ graph_line = NoLine
    /\ measured = NoPrev
    /\ ref = NoCall
    /\ Idle({"graph", "calls"})

FirstCall ==
    /\ ref = NoCall
    /\ \E c \in 0..MaxCallUse, p \in {NoPrev} \cup (0..MaxCallUse) :
          /\ curr_use' = c
          /\ previous_use' = p
          /\ graph_line' = ShowMemoryGraph(c, p)
          /\ ref' = [curr |-> c, prev |-> p, line |-> graph_line', between |-> FALSE]
    /\ UNCHANGED <<alone, measured, config, flags, pc, i, n, prev_used, cpu_use, wk, ch,
                   term, clock, spawned, faults, abort>>

LaterCall ==
    /\ ref # NoCall
    /\ \E c \in 0..MaxCallUse, p \in {NoPrev} \cup (0..MaxCallUse) :
          /\ curr_use' = c
          /\ previous_use' = p
          /\ graph_line' = ShowMemoryGraph(c, p)
          /\ ref' = [ref EXCEPT !.between = @ \/ c # ref.curr \/ p # ref.prev]
    /\ UNCHANGED <<alone, measured, config, flags, pc, i, n, prev_used, cpu_use, wk, ch,
                   term, clock, spawned, faults, abort>>

NextCalls == FirstCall \/ LaterCall

SpecCalls == InitCalls /\ [][NextCalls]_vars

\* ------------------------------------------------------------------ memory data path

\* the memory amounts of a run with graphics, iteration after iteration: the
\* worker measures and prints, the coordinator reads the line back
InitDelta ==
    /\ sample = MaxSample
    /\ tdelay = 0
    /\ sys = 1
    /\ user = 0
    /\ graph = 1
    /\ sequential = 0
    /\ Boot
    /\ curr_use = 0
    /\ previous_use = NoPrev
    /\ graph_line = NoLine
    /\ measured = NoPrev
    /\ Idle({"graph"})

\* the worker of iteration i: get_memory_info(prev_used, graph) measures the
\* amount in use, prints it with two decimals and hands it to show_memory_graph
GetMemoryInfo ==
    /\ LoopCond(i, sample)
    /\ graph_line = NoLine
    /\ \E used \in 0..MaxUse :
          /\ curr_use' = used
          /\ previous_use' = prev_used
          /\ graph_line' = ShowMemoryGraph(used, prev_used)
    /\ UNCHANGED <<alone, measured, ref, config, flags, pc, i, n, prev_used, cpu_use, wk, ch,
                   term, clock, spawned, faults, abort>>

\* the coordinator: sscanf(mem_info, "%lf GB / ", &prev_used) reads back the
\* amount as it was printed
ScanPrevUsed ==
    /\ graph_line # NoLine
    /\ \E h \in Fmt2(curr_use) : prev_used' = h * Steps
    /\ measured' = curr_use
    /\ graph_line' = NoLine
    /\ i' = i + 1
    /\ UNCHANGED <<alone, curr_use, previous_use, ref, config, flags, pc, n, cpu_use, wk, ch,
                   term, clock, spawned, faults, abort>>

NextDelta == GetMemoryInfo \/ ScanPrevUsed

SpecDelta == InitDelta /\ [][NextDelta]_vars

\* ------------------------------------------------------------------ descriptors

\* the calls of one iteration of show_sys_usage that open or close a
\* descriptor of the coordinator, in program order: pipe and fork (with the
\* close of the writing end) are in read_memory_info / read_cpu_info /
\* read_user_info
FdsOrder ==
    <<[op |-> "pipe", k |-> "mem"], [op |-> "fork", k |-> "mem"],
      [op |-> "pipe", k |-> "cpu"], [op |-> "fork", k |-> "cpu"],
      [op |-> "fdopen", k |-> "mem"],
      [op |-> "pipe", k |-> "usr"], [op |-> "fork", k |-> "usr"],
      [op |-> "fdopen", k |-> "usr"],
      [op |-> "fclose", k |-> "mem"], [op |-> "close", k |-> "mem"],
      [op |-> "fclose", k |-> "usr"], [op |-> "close", k |-> "usr"],
      [op |-> "close", k |-> "cpu"]>>

\* if (sys == 1) / if (user == 1) around the call
FdsActive(x) == IF FdsOrder[x].k = "usr" THEN user = 1 ELSE sys = 1

\* the call after the x-th one; 0, the head of the loop, when there is none
RECURSIVE FdsAfter(_)
FdsAfter(x) ==
    IF x >= Len(FdsOrder) THEN 0
    ELSE IF FdsActive(x + 1) THEN x + 1 ELSE FdsAfter(x + 1)

FdsAt(op, k) == fdt.at > 0 /\ FdsOrder[fdt.at] = [op |-> op, k |-> k]

\* the coordinator goes on after the call; i ++ at the end of the iteration
FdsGoto(t) ==
    [t EXCEPT !.at = FdsAfter(fdt.at),
              !.it = IF FdsAfter(fdt.at) = 0 THEN @ + 1 ELSE @]

\* the descriptors that are not in use, and the lowest of them
FdsFree(tbl) == {d \in 3..MaxFd : tbl[d] = Free}

Lowest(ds) == CHOOSE d \in ds : \A e \in ds : d <= e

\* close(d) in the coordinator: EBADF on a number that is not in use; the
\* call and what it has closed are kept in hits
CloseFd(t, k, call, d) ==
    [t EXCEPT !.tbl = [e \in 3..MaxFd |-> IF e = d THEN Free ELSE @[e]],
              !.hits = @ \cup {[call |-> call, k |-> k,
                                got |-> IF d \in 3..MaxFd THEN t.tbl[d].k ELSE "free"]}]

\* the coordinator is started with the descriptors 0, 1, 2 and with those of
\* inherited open; fd[3][2] is not initialised
InitFds ==
    /\ sample \in 1..MaxSample
    /\ tdelay = 0
    /\ sys \in {0, 1}
    /\ user \in {0, 1}
    /\ sys + user >= 1
    /\ graph = 0
    /\ sequential \in {0, 1}
    /\ Boot
    /\ \E inherited \in SUBSET {3, 5} :
          sub = [NoSub EXCEPT !.fdt = [FdsStart EXCEPT !.tbl = [d \in 3..MaxFd |->
                                         IF d \in inherited
                                         THEN [k |-> "inherited", end |-> ""]
                                         ELSE Free]]]
    /\ Idle({"fds"})

\* for (int i = 0; i < sample; i ++)
FdsLoop ==
    /\ fdt.at = 0
    /\ fdt.it < sample
    /\ SetFdt([fdt EXCEPT !.at = FdsAfter(0)])
    /\ UNCHANGED <<memg, stat, va, sigint, sg, io, config, flags, prog>>

\* pipe(fd): the two lowest descriptors not in use, the reading end first;
\* perror and exit(1) when there are not two
FdsPipe(k) ==
    /\ FdsAt("pipe", k)
    /\ LET free == FdsFree(fdt.tbl)
           r == Lowest(free)
           w == Lowest(free \ {r})
       IN  SetFdt(IF Cardinality(free) < 2
                  THEN [fdt EXCEPT !.at = -1]
                  ELSE FdsGoto([fdt EXCEPT !.tbl[r] = [k |-> k, end |-> "r"],
                                           !.tbl[w] = [k |-> k, end |-> "w"],
                                           !.fd[k] = [r |-> r, w |-> w]]))
    /\ UNCHANGED <<memg, stat, va, sigint, sg, io, config, flags, prog>>

\* a fork after which the coordinator keeps the writing end
FdsForkKeepsWrite(k) ==
    /\ FdsAt("fork", k)
    /\ SetFdt(FdsGoto(fdt))
    /\ UNCHANGED <<memg, stat, va, sigint, sg, io, config, flags, prog>>

\* fork(): the child gets a table of its own; in the parent
\* close(fd[STDOUT_FILENO])
FdsFork(k) ==
    /\ FdsAt("fork", k)
    /\ SetFdt(FdsGoto(CloseFd(fdt, k, "close_w", fdt.fd[k].w)))
    /\ UNCHANGED <<memg, stat, va, sigint, sg, io, config, flags, prog>>

\* mem_file = fdopen(fd[0][0], "r") / user_file = fdopen(fd[1][0], "r"): the
\* stream is put on the descriptor, no descriptor is made
FdsFdopen(k) ==
    /\ FdsAt("fdopen", k)
    /\ SetFdt(FdsGoto([fdt EXCEPT !.file[k] = fdt.fd[k].r]))
    /\ UNCHANGED <<memg, stat, va, sigint, sg, io, config, flags, prog>>

\* fclose(mem_file) / fclose(user_file): closes the descriptor of the stream
FdsFclose(k) ==
    /\ FdsAt("fclose", k)
    /\ SetFdt(FdsGoto([CloseFd(fdt, k, "fclose", fdt.file[k]) EXCEPT !.file[k] = -1]))
    /\ UNCHANGED <<memg, stat, va, sigint, sg, io, config, flags, prog>>

\* close(fd[0][0]) / close(fd[1][0]) / close(fd[2][0]); its result is not
\* looked at
FdsClose(k) ==
    /\ FdsAt("close", k)
    /\ SetFdt(FdsGoto(CloseFd(fdt, k, "close_r", fdt.fd[k].r)))
    /\ UNCHANGED <<memg, stat, va, sigint, sg, io, config, flags, prog>>

NextFds ==
    \/ FdsLoop
    \/ \E k \in Kinds : FdsPipe(k)
    \/ \E k \in Kinds : FdsFork(k)
    \/ \E k \in Kinds : FdsFdopen(k)
    \/ \E k \in Kinds : FdsFclose(k)
    \/ \E k \in Kinds : FdsClose(k)

SpecFds == InitFds /\ [][NextFds]_vars

\* ------------------------------------------------------------------ /proc/meminfo

\* the lines of /proc/meminfo that get_memory_info parses, in the order in
\* which the kernel writes them
Fields == <<"MemTotal", "MemFree", "Buffers", "Cached", "SwapTotal", "SwapFree",
            "SReclaimable">>

Reverse(q) == [x \in 1..Len(q) |-> q[Len(q) + 1 - x]]

\* the fields of q that are in present, in the order of q
Keep(q, present) == SelectSeq(q, LAMBDA f : f \in present)

\* the locals that the branch of field f assigns, among the four that are printed
Assigns(f) ==
    CASE f = "MemTotal"     -> {"total_phys"}
      [] f = "SwapTotal"    -> {"total_virtual"}
      [] f = "SReclaimable" -> {"phys_used", "virtual_used"}
      [] OTHER              -> {}

Reported == {"phys_used", "total_phys", "virtual_used", "total_virtual"}

\* get_memory_info in a worker; /proc/meminfo holds its fields in the order
\* of the kernel or in the opposite one, each of them present or not
InitMemInfo ==
    /\ sample = 1
    /\ tdelay = 0
    /\ sys = 1
    /\ user = 0
    /\ graph \in {0, 1}
    /\ sequential = 0
    /\ Boot
    /\ \E present \in SUBSET {Fields[x] : x \in 1..Len(Fields)},
          q \in {Fields, Reverse(Fields)} :
          sub = [NoSub EXCEPT !.mi = [MemInfoStart EXCEPT !.at = "loop",
                                                      !.rest = Keep(q, present)]]
    /\ Idle({"meminfo"})

\* the sscanf branch taken for a line of field f; the branch of SReclaimable
\* calls fclose(meminfo)
ParseLine(m, f) ==
    [m EXCEPT !.rest = Tail(@),
              !.set = @ \cup Assigns(f),
              !.closed = @ \/ f = "SReclaimable",
              !.closes = IF f = "SReclaimable" THEN @ + 1 ELSE @]

\* while (fgets(line, sizeof(line), meminfo)) on the open stream: the next
\* line and its branch, or NULL at the end of the file
MemInfoFgets ==
    /\ mi.at = "loop"
    /\ ~mi.closed
    /\ SetMemInfo(IF mi.rest = <<>> THEN [mi EXCEPT !.at = "print"]
             ELSE ParseLine(mi, Head(mi.rest)))
    /\ UNCHANGED <<memg, stat, va, sigint, sg, io, config, flags, prog>>

\* the same call on the stream that fclose has released: the behaviour is
\* undefined.  The call returns NULL, or it hands out a line that the released
\* buffer still holds, or the worker is ended by a signal
MemInfoFgetsClosed ==
    /\ mi.at = "loop"
    /\ mi.closed
    /\ \E outcome \in {"null", "line", "signal"} :
          /\ outcome = "line" => mi.rest # <<>>
          /\ SetMemInfo(CASE outcome = "null" -> [mi EXCEPT !.at = "print", !.late = @ + 1]
                     [] outcome = "line" ->
                           [ParseLine(mi, Head(mi.rest)) EXCEPT !.late = @ + 1]
                     [] OTHER -> [mi EXCEPT !.at = "killed", !.late = @ + 1])
    /\ UNCHANGED <<memg, stat, va, sigint, sg, io, config, flags, prog>>

\* printf of the four values, then show_memory_graph or the newline; unset
\* holds the values that no branch has assigned
MemInfoPrint ==
    /\ mi.at = "print"
    /\ SetMemInfo([mi EXCEPT !.at = "printed", !.unset = Reported \ mi.set])
    /\ UNCHANGED <<memg, stat, va, sigint, sg, io, config, flags, prog>>

NextMemInfo ==
    \/ MemInfoFgets
    \/ MemInfoFgetsClosed
    \/ MemInfoPrint

SpecMemInfo == InitMemInfo /\ [][NextMemInfo]_vars

\* ------------------------------------------------------------------ the memory line

\* the bytes of "%.2f" for an amount with d digits before the point
Width(d) == d + 3

\* the bytes of the line that get_memory_info prints: the four amounts with
\* wa, wb, wc, wd bytes; with graphics "  |", run glyphs, the end glyph,
\* " %.2f (%.2f)" with the difference (signed when it is negative) and the
\* amount in use; the newline
LineBytes(wa, wb, wc, wd, graphics, run, negative) ==
    wa + 6 + wb + 8 + wc + 6 + wd + 3
    + (IF graphics = 1
       THEN 3 + run + 1 + 1 + (IF negative /\ run > 0 THEN 5 ELSE 4) + 2 + wa + 1
       ELSE 0)
    + 1

\* the memory worker has written its line to the pipe and has ended
InitFgets ==
    /\ sample = 1
    /\ tdelay = 0
    /\ sys = 1
    /\ user = 0
    /\ graph \in {0, 1}
    /\ sequential \in {0, 1}
    /\ Boot
    /\ \E da \in 1..MaxDigits, db \in 1..MaxDigits, dc \in 1..MaxDigits,
          dd \in 1..MaxDigits, delta \in 0..MaxDelta, negative \in BOOLEAN :
          /\ graph = 0 => delta = 0 /\ ~negative
          /\ sub = [NoSub EXCEPT !.lb =
                       [FgetsStart EXCEPT
                           !.at = "fgets",
                           !.len = LineBytes(Width(da), Width(db), Width(dc), Width(dd),
                                             graph, delta * GlyphsPerGB, negative),
                           !.pipe = LineBytes(Width(da), Width(db), Width(dc), Width(dd),
                                              graph, delta * GlyphsPerGB, negative)]]
    /\ Idle({"fgets"})

\* fgets(mem_info, 512, mem_file): at most 511 bytes, up to the newline and
\* with it
Fgets ==
    /\ lb.at = "fgets"
    /\ SetLine([lb EXCEPT !.at = "printf",
                        !.got = IF lb.pipe < LineBuffer - 1 THEN lb.pipe ELSE LineBuffer - 1,
                        !.nl = lb.pipe <= LineBuffer - 1,
                        !.pipe = IF lb.pipe < LineBuffer - 1 THEN 0
                                 ELSE lb.pipe - (LineBuffer - 1)])
    /\ UNCHANGED <<memg, stat, va, sigint, sg, io, config, flags, prog>>

\* printf("%s", mem_info)
PrintMemInfo ==
    /\ lb.at = "printf"
    /\ SetLine([lb EXCEPT !.at = "fclose", !.shown = lb.got,
                        !.newlines = IF lb.nl THEN 1 ELSE 0])
    /\ UNCHANGED <<memg, stat, va, sigint, sg, io, config, flags, prog>>

\* fclose(mem_file): what is left in the pipe is dropped; then the separator
FcloseMemFile ==
    /\ lb.at = "fclose"
    /\ SetLine([lb EXCEPT !.at = "sep", !.pipe = 0])
    /\ UNCHANGED <<memg, stat, va, sigint, sg, io, config, flags, prog>>

NextFgets ==
    \/ Fgets
    \/ PrintMemInfo
    \/ FcloseMemFile

SpecFgets == InitFgets /\ [][NextFgets]_vars

\* ------------------------------------------------------------------ renderer without workers

\* show_sys_usage(sample, tdelay, graph_flag) of mySystemStats.c, the refresh
\* renderer that calls the accessors itself.  Its i counts down from sample;
\* out holds the events of the iteration under way, the one that starts with
\* i under the number sample - i
InitSerial ==
    /\ sample \in 1..MaxSample
    /\ tdelay \in 0..MaxDelay
    /\ sys = 1
    /\ user = 0
    /\ graph \in {0, 1}
    /\ sequential = 0
    /\ Boot
    /\ Idle({})

\* the separator and the header of the memory section
SerialHeader ==
    /\ pc = "main"
    /\ Output(<<Ev("sep", 0, 0), Ev("memhdr", 0, 0)>>)
    /\ pc' = "s_reserve"
    /\ UNCHANGED <<enc, config, flags, i, n, prev_used, cpu_use, wk, ch, clock, spawned,
                   faults, abort>>

\* for (int i = 0; i < sample; i ++) printf("\n")
SerialReserve ==
    /\ pc = "s_reserve"
    /\ Output(Rep(sample, Ev("nl", 0, 0)))
    /\ pc' = "s_cores"
    /\ UNCHANGED <<enc, config, flags, i, n, prev_used, cpu_use, wk, ch, clock, spawned,
                   faults, abort>>

\* show_core_info() and move_up(sample + 2); the loop starts with i = sample
SerialCores ==
    /\ pc = "s_cores"
    /\ Output(<<Ev("sep", 0, 0), Ev("cores", 0, 0), Ev("up", 0, sample + 2)>>)
    /\ i' = sample
    /\ pc' = "s_loop"
    /\ UNCHANGED <<enc, config, flags, n, prev_used, cpu_use, wk, ch, clock, spawned,
                   faults, abort>>

\* for (int i = sample; i > 0; i --); the events of what came before are
\* dropped from the state
SerialLoop ==
    /\ pc = "s_loop"
    /\ pc' = IF i > 0 THEN "s_mem" ELSE "s_tail"
    /\ out' = <<>>
    /\ UNCHANGED <<enc, config, flags, i, n, prev_used, cpu_use, wk, ch, memLines,
                   cpuLines, usrBlocks, iterBlocks, lastIter, osBlocks, cur, bottom,
                   clock, spawned, faults, abort>>

\* men_use = get_memory_info(men_use, graph_flag): one line
SerialMemory ==
    /\ pc = "s_mem"
    /\ Output(<<Ev("mem", sample - i, 0)>>)
    /\ prev_used' = sample - i
    /\ pc' = "s_down"
    /\ UNCHANGED <<enc, config, flags, i, n, cpu_use, wk, ch, clock, spawned, faults,
                   abort>>

\* move_down(i + 1)
SerialMoveDown ==
    /\ pc = "s_down"
    /\ Output(<<Ev("down", sample - i, i + 1)>>)
    /\ pc' = "s_cpu"
    /\ UNCHANGED <<enc, config, flags, i, n, prev_used, cpu_use, wk, ch, clock, spawned,
                   faults, abort>>

\* show_cpu_info(tdelay): two readings tdelay apart, then the cpu line
SerialCpu ==
    /\ pc = "s_cpu"
    /\ Output(<<Ev("cpu", sample - i, 1)>>)
    /\ cpu_use' = 1
    /\ now' = now + tdelay
    /\ pc' = IF graph = 1 THEN "s_graph" ELSE "s_up"
    /\ UNCHANGED <<enc, config, flags, i, n, prev_used, wk, ch, longest, total, sleepRem,
                   spawned, faults, abort>>

\* move_down(sample - i); show_cpu_graph(cpu_use); move_up(sample - i + 1)
SerialGraph ==
    /\ pc = "s_graph"
    /\ Output(<<Ev("down", sample - i, sample - i), Ev("cpugraph", sample - i, cpu_use),
                Ev("up", sample - i, sample - i + 1)>>)
    /\ pc' = "s_up"
    /\ UNCHANGED <<enc, config, flags, i, n, prev_used, cpu_use, wk, ch, clock, spawned,
                   faults, abort>>

\* a move back to the memory section that is one row short
SerialMoveUpShort ==
    /\ pc = "s_up"
    /\ Output(<<Ev("up", sample - i, i + 1)>>)
    /\ i' = i - 1
    /\ pc' = "s_loop"
    /\ UNCHANGED <<enc, config, flags, n, prev_used, cpu_use, wk, ch, clock, spawned,
                   faults, abort>>

\* move_up(i + 2), and the i -- of the loop
SerialMoveUp ==
    /\ pc = "s_up"
    /\ Output(<<Ev("up", sample - i, i + 2)>>)
    /\ i' = i - 1
    /\ pc' = "s_loop"
    /\ UNCHANGED <<enc, config, flags, n, prev_used, cpu_use, wk, ch, clock, spawned,
                   faults, abort>>

\* after the loop: move_down(3), and move_down(sample) with graphics
SerialTail ==
    /\ pc = "s_tail"
    /\ Output(<<Ev("down", sample, 3)>>
              \o (IF graph = 1 THEN <<Ev("down", sample, sample)>> ELSE <<>>))
    /\ pc' = "s_done"
    /\ UNCHANGED <<enc, config, flags, i, n, prev_used, cpu_use, wk, ch, clock, spawned,
                   faults, abort>>

NextSerial ==
    \/ SerialHeader
    \/ SerialReserve
    \/ SerialCores
    \/ SerialLoop
    \/ SerialMemory
    \/ SerialMoveDown
    \/ SerialCpu
    \/ SerialGraph
    \/ SerialMoveUp
    \/ SerialTail

SpecSerial == InitSerial /\ [][NextSerial]_vars

\* ------------------------------------------------------------------ properties

\* the kinds of worker an iteration starts under the current flags
ActiveKinds == {k \in Kinds : IF k = "usr" THEN user = 1 ELSE sys = 1}

\* C1: the loop runs exactly `sample` iterations and stops.  At every loop
\* head, i iterations are over and i memory lines and i cpu lines have been
\* written; in sequential mode i titles have been written and the last one
\* shows the number i; a run that returns from main has made `sample`
\* iterations, never more.
C1_ExactlySampleIterations ==
    /\ i <= sample
    /\ lastIter = iterBlocks
    /\ pc \in {"loop", "tail", "done"} =>
          /\ sys = 1 => memLines = i /\ cpuLines = i
          /\ iterBlocks = (IF sequential = 1 THEN i ELSE 0)
    /\ pc \in {"tail", "done"} => i = sample

C1_Witness ==
    /\ pc = "done"
    /\ sample >= 2
    /\ sys = 1
    /\ sequential = 1
    /\ memLines = sample
    /\ cpuLines = sample
    /\ lastIter = sample

\* C2: every worker of the iteration is started before the coordinator's first
\* blocking read, and an iteration that shows both sections and in which no
\* worker fails takes as long as its longest accessor (the cpu accessor takes
\* tdelay), not as long as the accessors together.
C2_ElapsedIsLongestCost ==
    /\ pc \in {"mem_read", "usr_read", "cpu_read"} =>
          \A k \in ActiveKinds : wk[k].st # "none"
    /\ (pc = "loop" /\ i > 0 /\ sys = 1 /\ user = 1 /\ faults = {}) =>
          /\ now = longest
          /\ longest >= tdelay
          /\ total > longest => now < total

C2_Witness ==
    /\ pc = "loop"
    /\ i > 0
    /\ sys = 1
    /\ user = 1
    /\ faults = {}
    /\ tdelay >= 1
    /\ total > longest
    /\ now = longest

\* C3: with sample = 3, a memory worker that fails does not end the run: the
\* coordinator does not exit in an iteration whose memory worker has failed.
C3_MemoryFailureKeepsRunning ==
    (sample = 3 /\ "mem" \in faults) => pc # "exit1"

\* C4: when main returns, every worker that was forked has been reaped.
C4_AllReapedAtReturn ==
    pc = "done" => Unreaped = 0

\* C5: when the coordinator quits on a confirmed interrupt, no worker is left
\* alive and every worker that was forked has been reaped.
C5_AllReapedAtQuit ==
    pc = "quit" => (Unreaped = 0 /\ \A k \in Kinds : ~Alive(k))

\* C6: once a worker has ended, by exit(0) or by a failure, no process holds
\* the writing end of its pipe, so the coordinator's read on that pipe is not
\* blocked: it returns the data or end of file.
C6_EofAfterWorkerEnds ==
    \A k \in Kinds :
        wk[k].st = "zombie" =>
            /\ ch[k].w = {}
            /\ ~(Blocked /\ pc = (CASE k = "mem" -> "mem_read"
                                    [] k = "usr" -> "usr_read"
                                    [] k = "cpu" -> "cpu_read"))

C6_Witness ==
    /\ pc = "usr_read"
    /\ "usr" \in faults
    /\ wk["usr"].st = "zombie"
    /\ Alive("cpu")
    /\ ch["usr"].buf = <<>>
    /\ AtEof("usr")

\* C7: every cpu line the coordinator writes shows a value that the cpu pipe
\* delivered in the same iteration.
C7_CpuValueOnlyFromData ==
    \A x \in 1..Len(out) : out[x].t = "cpu" => out[x].v = 1

\* C8: when the coordinator ends with exit(1), the cursor is on a fresh row
\* below every row that has been written.
C8_AbortBelowReport ==
    pc = "exit1" => cur >= bottom

C10_IterationSerial ==
    (\E k \in Kinds : wk[k].st # "none") =>
        /\ sys = 1 => memLines >= i /\ cpuLines >= i
        /\ user = 1 => usrBlocks >= i

C10_Witness ==
    /\ i >= 1
    /\ pc = "spawn_cpu"
    /\ wk["mem"].st # "none"
    /\ sys = 1
    /\ user = 1
    /\ memLines = i
    /\ cpuLines = i
    /\ usrBlocks = i

\* C11: the coordinator reads the pipes in the order memory, users, cpu,
\* whatever the order in which the workers end.  While it is at the memory
\* read it has read neither the users nor the cpu pipe of the iteration; while
\* it is at the users read it has read the memory pipe and not the cpu pipe;
\* when it is at the cpu read it has read the memory and the users pipe.
C11_ReadsInFixedOrder ==
    /\ pc = "mem_read" =>
          /\ user = 1 => "parent" \in ch["usr"].r /\ usrBlocks = i
          /\ "parent" \in ch["cpu"].r /\ cpuLines = i
    /\ pc = "usr_read" =>
          /\ sys = 1 => memLines = i + 1 /\ "parent" \notin ch["mem"].r
          /\ sys = 1 => "parent" \in ch["cpu"].r /\ cpuLines = i
    /\ pc = "cpu_read" =>
          /\ memLines = i + 1 /\ "parent" \notin ch["mem"].r
          /\ user = 1 => usrBlocks = i + 1 /\ "parent" \notin ch["usr"].r

C11_Witness ==
    /\ pc = "mem_read"
    /\ Blocked
    /\ wk["mem"].st = "running"
    /\ wk["usr"].st = "zombie"
    /\ wk["cpu"].st = "zombie"
    /\ "parent" \in ch["usr"].r
    /\ "parent" \in ch["cpu"].r


\* the row the cursor was on when the current iteration started
StartRow == cur - Render([cur |-> 0, bottom |-> 0], out).cur

\* the row on which the x-th event of the current iteration was written
RowOf(x) == Render([cur |-> StartRow, bottom |-> 0], SubSeq(out, 1, x - 1)).cur

\* the row of the memory header in refresh mode: the first one below the
\* runtime information
MemHeaderRow == Len(ShowRuntimeInfo(0))

\* the x-th event of the iteration is the separator that closes the memory section
ClosesMemory(x) == x > 1 /\ out[x].t = "sep" /\ out[x - 1].t \in {"mem", "nl"}

\* C12: refresh mode with the system section (moves taken as displacements of
\* exactly K rows): the memory header is on the row below the runtime
\* information, the memory line of iteration `it` (from 0) is on row `it` below
\* the header, and the separator that closes the memory section is on row
\* `sample` below the header, in every iteration.
C12_MemoryRows ==
    (sequential = 0 /\ sys = 1) =>
        \A x \in 1..Len(out) :
            /\ out[x].t = "memhdr" => RowOf(x) = MemHeaderRow
            /\ out[x].t = "mem" => RowOf(x) = MemHeaderRow + 1 + out[x].it
            /\ ClosesMemory(x) => RowOf(x) = MemHeaderRow + 1 + sample

C12_Witness ==
    /\ sequential = 0
    /\ sys = 1
    /\ user = 1
    /\ graph = 1
    /\ bottom > cur + 1
    /\ \E x \in 1..Len(out) :
          /\ ClosesMemory(x)
          /\ out[x].it >= 2
          /\ RowOf(x) = MemHeaderRow + 1 + sample


\* C13: refresh mode with both sections.  The cores line of an iteration is
\* written right below the session block of the same iteration, that is, as
\* many rows below the separator of the memory section as that block has
\* lines, and the cpu line on the next row; n then holds the height of that
\* block, and the move up at the start of the next iteration is by n.
C13_CpuRowsFollowSessionBlock ==
    (sequential = 0 /\ sys = 1 /\ user = 1) =>
        \A x \in 1..Len(out) :
            /\ out[x].t = "cores" =>
                  /\ RowOf(x) = MemHeaderRow + 1 + sample + 1 + Count(out, "usr")
                  /\ n = Count(out, "usr")
            /\ out[x].t = "cpu" =>
                  RowOf(x) = MemHeaderRow + 1 + sample + 2 + Count(out, "usr")
            /\ (out[x].t = "up" /\ x = 2 /\ pc \in {"mem_read", "usr_read"}) =>
                  out[x].v = n

C13_Witness ==
    /\ sequential = 0
    /\ sys = 1
    /\ user = 1
    /\ pc = "loop"
    /\ i >= 2
    /\ bottom > cur
    /\ n = Count(out, "usr")
    /\ n >= 2
    /\ \E x \in 1..Len(out) : out[x].t = "up" /\ x = 2 /\ out[x].v > n


\* the x-th event of the iteration prints a line (the row gets new content)
Writes(x) == out[x].t \notin {"up", "down", "nl"}

\* C14: refresh mode with graphs.  The last row written by an iteration is
\* its cpu graph row; no line printed by the next iteration lands on that
\* row, so the graph row of the earlier iteration stays on the terminal.
C14_GraphRowsKept ==
    (sequential = 0 /\ sys = 1 /\ graph = 1) =>
        \A x \in 1..Len(out) :
            (out[x].it >= 1 /\ Writes(x)) => RowOf(x) # StartRow - 1


\* C15: sequential mode emits no cursor movement: neither move_up nor
\* move_down appears in the output of any iteration or after the loop.
C15_SequentialNeverMoves ==
    sequential = 1 => \A x \in 1..Len(out) : out[x].t \notin {"up", "down"}


\* the place of a printed line in the display order: runtime information,
\* memory usage, connected users, cpu usage; 0 for what belongs to no section
SectionRank(t) ==
    CASE t = "runtime"                 -> 1
      [] t \in {"memhdr", "mem"}       -> 2
      [] t = "usr"                     -> 3
      [] t \in {"cores", "cpu"}        -> 4
      [] t = "cpugraph"                -> 5
      [] OTHER                         -> 0

\* C16: in both modes the lines of an iteration are printed in the order
\* runtime information, memory section, session block, cpu line, cpu graph:
\* no line of a section is printed after a line of a later section.
C16_CanonicalSectionOrder ==
    \A x, y \in 1..Len(out) :
        (x < y /\ SectionRank(out[x].t) > 0 /\ SectionRank(out[y].t) > 0) =>
            SectionRank(out[x].t) <= SectionRank(out[y].t)

C16_Witness ==
    /\ pc = "loop"
    /\ graph = 1
    /\ \E a, b, c, d, e \in 1..Len(out) :
          /\ a < b /\ b < c /\ c < d /\ d < e
          /\ out[a].t = "runtime"
          /\ out[b].t = "mem"
          /\ out[c].t = "usr"
          /\ out[d].t = "cpu"
          /\ out[e].t = "cpugraph"


\* C17: the OS identity block is printed once, when the run completes: none
\* has been printed while the iterations run, and when main returns exactly
\* one has been printed, after the last of the `sample` iterations.
C17_SysInfoOnceAtEnd ==
    /\ pc # "done" => osBlocks = 0
    /\ pc = "done" =>
          /\ osBlocks = 1
          /\ i = sample
          /\ Count(out, "osname") = 1

C17_Witness ==
    /\ pc = "done"
    /\ sample >= 2
    /\ osBlocks = 1
    /\ out[Len(out) - 5].t = "osname"


\* C18: a metric is acquired and rendered only when its flag is set.  Without
\* the users flag no users worker or pipe exists and no session line is
\* printed; without the system flag no memory or cpu worker or pipe exists and
\* no memory or cpu line is printed; without the graphics flag no memory
\* line carries a graph and no cpu graph row is printed.
C18_OnlyActiveMetrics ==
    /\ user = 0 =>
          /\ wk["usr"] = NoWorker /\ ch["usr"] = NoPipe
          /\ usrBlocks = 0 /\ Count(out, "usr") = 0
          /\ spawned <= 2 * (i + 1)
    /\ sys = 0 =>
          /\ wk["mem"] = NoWorker /\ ch["mem"] = NoPipe
          /\ wk["cpu"] = NoWorker /\ ch["cpu"] = NoPipe
          /\ memLines = 0 /\ cpuLines = 0
          /\ Count(out, "memhdr") + Count(out, "cores") + Count(out, "cpugraph") = 0
          /\ spawned <= i + 1
    /\ graph = 0 =>
          \A x \in 1..Len(out) :
              /\ out[x].t # "cpugraph"
              /\ out[x].t = "mem" => out[x].v.graph = 0

C18_Witness ==
    /\ pc = "done"
    /\ sample = 1
    /\ tdelay = 0
    /\ sys = 1
    /\ user = 0
    /\ graph = 0
    /\ memLines = 1
    /\ cpuLines = 1
    /\ usrBlocks = 0
    /\ spawned = 2
    /\ osBlocks = 1


\* C19: with a valid previous amount the encoder takes exactly the branch of
\* diff = curr - prev: 0 <= diff < 0.01 prints 'o' and 0.00 with no run (so
\* equal amounts print 'o 0.00'); -0.01 < diff < 0 prints '@' and 0.00 with no
\* run; diff >= 0.01 prints a run of '#' ended by '*'; diff <= -0.01 prints a
\* run of ':' ended by '@'.
C19_BranchByDiff ==
    (graph_line # NoLine /\ previous_use # NoPrev) =>
        LET diff == curr_use - previous_use
            g == graph_line
        IN  /\ (0 <= diff /\ diff < Steps) =>
                  g = [glyph |-> "", len |-> 0, end |-> "o", mag |-> {0}]
            /\ (-Steps < diff /\ diff < 0) =>
                  g = [glyph |-> "", len |-> 0, end |-> "@", mag |-> {0}]
            /\ diff >= Steps => g.glyph = "#" /\ g.len >= 1 /\ g.end = "*"
            /\ diff <= -Steps => g.glyph = ":" /\ g.len >= 1 /\ g.end = "@"

C19_Witness ==
    /\ graph_line # NoLine
    /\ previous_use # NoPrev
    /\ curr_use = previous_use
    /\ graph_line.end = "o"
    /\ graph_line.mag = {0}

\* C20: when the amounts differ by 0.01 or more, the run has
\* floor(|curr - prev| * 100) glyphs.
C20_RunLengthIsFloor ==
    (graph_line # NoLine /\ previous_use # NoPrev) =>
        LET diff == curr_use - previous_use
        IN  /\ diff >= Steps => graph_line.len = diff \div Steps
            /\ diff <= -Steps => graph_line.len = (-diff) \div Steps


\* C21: with graphics, the encoder of iteration 0 gets the "no prior sample"
\* value and prints 'o 0.00'; the encoder of every later iteration gets the
\* amount measured in the iteration before, so its output is the encoding of
\* the two measured amounts.
C21_DeltaOfMeasuredAmounts ==
    graph_line # NoLine =>
        /\ i = 0 =>
              /\ previous_use = NoPrev
              /\ graph_line = [glyph |-> "", len |-> 0, end |-> "o", mag |-> {0}]
        /\ i >= 1 =>
              /\ previous_use = measured
              /\ graph_line = ShowMemoryGraph(curr_use, measured)


C23_CpuUseInRange ==
    stat.at = "done" =>
        /\ stat.cpu.den # 0
        /\ 0 <= stat.cpu.num
        /\ stat.cpu.num <= 100 * stat.cpu.den


\* C24: whenever vertify_arg accepts argv, sample >= 1 and tdelay >= 0, whether
\* the values came from --samples=N / --tdelay=T or from bare integers, and a
\* parameter that argv does not give keeps its default, 10 or 1.
C24_AcceptedValuesInRange ==
    va.at = "accepted" =>
        /\ sample >= 1
        /\ tdelay >= 0
        /\ (va.sv = {} /\ va.bare = <<>>) => sample = DefaultSample
        /\ (va.dv = {} /\ Len(va.bare) < 2) => tdelay = DefaultDelay


\* the values argv has given for the sample count and for the delay: those of
\* the flags, the first bare integer, the second bare integer
GivenSamples == va.sv \cup (IF Len(va.bare) >= 1 THEN {va.bare[1]} ELSE {})
GivenDelays == va.dv \cup (IF Len(va.bare) >= 2 THEN {va.bare[2]} ELSE {})

C27_CtrlCKeepsRunState ==
    [][/\ sigint' # sigint => UNCHANGED <<i, prev_used, n, wk, ch, pc, spawned>>
       /\ pc' = "done" => i' = sample
       /\ pc = "quit" => UNCHANGED vars]_vars

\* the run has made all its iterations after a Ctrl-C answered by 'n'
C27_Witness ==
    /\ sigint > 0
    /\ pc = "done"
    /\ i = sample
    /\ sample > 1


\* C28: from fork to exit no worker runs ctrlc_handler or ctrlz_handler, none
\* prompts or reads the terminal, none is ended by a signal, whenever the
\* signal comes.
C28_WorkersIgnoreSignals ==
    \A k \in Kinds :
        /\ sg.w[k].ran = {}
        /\ ~sg.w[k].asking
        /\ ~sg.w[k].quit


\* C29: every move_up and every move_down made by show_sys_usage moves by at
\* least one line, for every sample count, flag combination, iteration and
\* height of the session block.
C29_MovesArePositive ==
    \A x \in 1..Len(out) : out[x].t \in {"up", "down"} => out[x].v >= 1


\* C30: what a worker has written to its pipe when it has exited is the output
\* of its accessor and nothing else, whether the standard output of the
\* coordinator is line buffered or fully buffered: nothing the coordinator had
\* pending at the fork is in the pipe.
C30_PipeHoldsAccessorOutputOnly ==
    \A k \in Kinds : io.child[k].at = "exited" => io.child[k].pipe = <<k>>


\* C31: refresh mode with the session section alone (moves taken as
\* displacements of exactly K rows).  The session block of every iteration
\* starts on the row below the runtime information, where the block of the
\* first iteration started, whatever the heights of the blocks; the move up
\* that precedes a block is by the number of lines of the block before, and
\* after a block n holds its number of lines.
C31_SessionBlockStartsOnSameRow ==
    (sequential = 0 /\ sys = 0 /\ user = 1) =>
        /\ \A x \in 1..Len(out) :
              /\ (out[x].t = "usr" /\ out[x].v = 1) => RowOf(x) = MemHeaderRow
              /\ out[x].t = "up" => RowOf(x) - out[x].v = MemHeaderRow
        /\ pc = "usr_sleep" => n = Count(out, "usr")

\* a block of two lines has been written over a block of three, from the same row
C31_Witness ==
    /\ sequential = 0
    /\ sys = 0
    /\ user = 1
    /\ pc = "usr_sleep"
    /\ i >= 1
    /\ Len(out) = 3
    /\ out[1].t = "up"
    /\ out[1].v = 3
    /\ out[2].t = "usr"
    /\ RowOf(2) = MemHeaderRow
    /\ n = 2


\* C32: show_sys_usage of mySystemStats.c (moves taken as displacements of
\* exactly K rows; row 0 is the separator above the memory header).  At the
\* start of iteration k the cursor is on memory row k, the row 2 + k, where
\* the memory line of that iteration is written; the cpu line is written on
\* the same row, sample + 4, in every iteration; the cpu graph row of
\* iteration k is written k rows below that of iteration 0; after the loop the
\* cursor is on the first row below everything written.
C32_SerialRows ==
    pc \in {"s_loop", "s_mem", "s_down", "s_cpu", "s_graph", "s_up", "s_tail", "s_done"} =>
        /\ pc = "s_mem" => cur = 2 + (sample - i)
        /\ \A x \in 1..Len(out) :
              /\ out[x].t = "mem" => RowOf(x) = 2 + out[x].it
              /\ out[x].t = "cpu" => RowOf(x) = sample + 4
              /\ out[x].t = "cpugraph" => RowOf(x) = sample + 5 + out[x].it
        /\ pc = "s_done" => cur = bottom

\* with graphics, the renderer has made more than one iteration and has left
\* the cursor below the last cpu graph row
C32_Witness ==
    /\ pc = "s_done"
    /\ graph = 1
    /\ sample >= 2
    /\ cpuLines = sample
    /\ Len(out) = 2
    /\ cur = 2 * sample + 5


\* C33: in refresh mode with the system section and without graphics, once an
\* iteration has been rendered the cursor stands below its cpu line and no row
\* at or below the cursor holds a line: the rows under the memory section show
\* the session block and the cores / cpu lines of this iteration only.
\* (bottom is the first row below every line written so far; a row between cur
\* and bottom holds a line of an earlier iteration.)
C33_NoEarlierLineDisplayed ==
    (sequential = 0 /\ graph = 0 /\ sys = 1 /\ pc = "loop" /\ i >= 1) => bottom = cur


\* C34: in refresh mode every line that the tail writes (the closing
\* separator and the OS identity block) is written on a row below every line
\* written during the iterations, i.e. at or below bottom as it is when the
\* loop ends.
C34_TailBelowReport ==
    [][(sequential = 0 /\ pc = "tail" /\ pc' = "done") =>
          \A x \in (Len(out) + 1)..Len(out') :
              (out'[x].t \notin {"up", "down"}) =>
                  Render([cur |-> cur, bottom |-> bottom],
                         SubSeq(out', Len(out) + 1, x - 1)).cur >= bottom]_vars


\* C35: whenever an iteration is over, no descriptor of the coordinator is an
\* end of a pipe (the reading and the writing ends made in the iteration are
\* closed, the descriptors in use are the inherited ones), for every
\* combination of the flags; and every close of the coordinator has either
\* closed an end of the pipe it was called for or has found the number not in
\* use (EBADF), never a descriptor of another pipe or an inherited one.
C35_NoDescriptorLeftOpen ==
    /\ fdt.at = 0 => \A d \in 3..MaxFd : fdt.tbl[d].k \in {"free", "inherited"}
    /\ \A h \in fdt.hits : h.got \in {"free", h.k}
    /\ fdt.at >= 0

\* two iterations with both sections are over: the close after fclose has
\* found its number not in use, the close of the cpu pipe has closed it
C35_Witness ==
    /\ fdt.at = 0
    /\ fdt.it = 2
    /\ sys = 1
    /\ user = 1
    /\ [call |-> "close_r", k |-> "mem", got |-> "free"] \in fdt.hits
    /\ [call |-> "fclose", k |-> "usr", got |-> "usr"] \in fdt.hits
    /\ [call |-> "close_r", k |-> "cpu", got |-> "cpu"] \in fdt.hits
    /\ [call |-> "close_w", k |-> "mem", got |-> "mem"] \in fdt.hits
    /\ fdt.tbl[5].k = "inherited"


\* C36: when get_memory_info has printed its line, it has closed the stream
\* of /proc/meminfo exactly once, every one of the four values it prints has
\* been assigned, and at no time has it called fgets on the stream after the
\* fclose; for the fields in either order, each of them present or not.
C36_StreamClosedOnceValuesAssigned ==
    /\ mi.late = 0
    /\ mi.at = "printed" => mi.closes = 1 /\ mi.unset = {}


\* C37: once the coordinator has printed mem_info, the terminal has got every
\* byte of the line that the memory worker wrote, the newline included, so
\* that the memory line takes exactly one terminal line; for every size of the
\* delta graph.
C37_WholeMemoryLineRendered ==
    lb.at \in {"fclose", "sep"} => lb.shown = lb.len /\ lb.newlines = 1


====
